---------------------------- MODULE Spec2Model ----------------------------
(***************************************************************************)
(* State-machine model of OKXEngine (src/vn_qtrade/okx_engine.py): the     *)
(* per-symbol stop-loss / take-profit protection and the trigger-trigger   *)
(* order (TTO) watcher.                                                    *)
(*                                                                         *)
(* Numbers.  The engine computes with Python floats.  The model computes   *)
(* with exact rationals, kept as normalised records [n |-> num, d |-> den] *)
(* (d > 0, gcd(n, d) = 1), so that two prices are equal exactly when their *)
(* records are equal.  Float rounding is not modelled.                     *)
(*                                                                         *)
(* Gateway.  Every remote call (ccxt) of a handler gets its outcome from   *)
(* an oracle g chosen by the environment for that handler run: g maps the  *)
(* positions (1st call, 2nd call, ...) of the failing calls to "rej" (a    *)
(* response with a non-success code) or "exc" (the call raised or timed    *)
(* out); every other call succeeds.                                        *)
(***************************************************************************)
EXTENDS Integers, Sequences, FiniteSets, TLC

(***************************************************************************)
(* Bounds of the model.                                                    *)
(***************************************************************************)
\* watches created over a run (also the longest queue)
MaxTTO == 2
\* failing gateway calls per run of a position event or an operator command
MaxFaults == 1
\* failing gateway calls per tick (one call per crossed watch)
MaxTickFaults == 2
\* pending algo orders the exchange holds; a further submission is rejected
MaxOrders == 2

(***************************************************************************)
(* Exact rational arithmetic standing for the float arithmetic.            *)
(***************************************************************************)
RECURSIVE GCD(_, _)
GCD(a, b) == IF b = 0 THEN a ELSE GCD(b, a % b)

IAbs(i) == IF i < 0 THEN -i ELSE i

\* the rational n/d (d # 0), normalised
R(n, d) ==
    LET s == IF d < 0 THEN -1 ELSE 1
        g == GCD(IAbs(n), IAbs(d))
    IN  [n |-> (s * n) \div g, d |-> (s * d) \div g]

Z(i) == [n |-> i, d |-> 1]

RAdd(a, b) == R(a.n * b.d + b.n * a.d, a.d * b.d)
RNeg(a)    == [n |-> -a.n, d |-> a.d]
RSub(a, b) == RAdd(a, RNeg(b))
RMul(a, b) == R(a.n * b.n, a.d * b.d)
\* a / b, b # 0
RDiv(a, b) == R(a.n * b.d, a.d * b.n)
RLt(a, b)  == a.n * b.d < b.n * a.d
RLe(a, b)  == a.n * b.d <= b.n * a.d
RAbs(a)    == [n |-> IAbs(a.n), d |-> a.d]

(***************************************************************************)
(* Values.                                                                 *)
(***************************************************************************)
Symbols == {"S", "T"}

\* A Python dict is a function on the keys it holds.
EmptyDict == <<>>
Has(dict, k) == k \in DOMAIN dict
Put(dict, k, v) == [x \in DOMAIN dict \cup {k} |-> IF x = k THEN v ELSE dict[x]]
NoArg == <<>>

VARIABLES
    last_tick,               \* self.last_tick: dict symbol -> last tick
    trigger_trigger_orders,  \* self.trigger_trigger_orders: dict symbol -> queue
    sltp_cfg,                \* self.sltp_cfg: dict symbol -> [stoploss, takeprofit]
    last_position,           \* self.last_position: dict symbol -> position
    _pause,                  \* self._pause
    tp_with_trigger,         \* self.tp_with_trigger
    cancel_tp,               \* self.cancel_tp
    positions,               \* main_engine's positions, in order of first arrival
    subscribed,              \* symbols whose tick feed the engine subscribed to
    algo_orders,             \* the exchange: pending trigger orders, oldest first
    tto_seq,                 \* number of watches created (the identity of a watch)
    tto_accepted,            \* watch id -> accepted second-leg submissions so far
    calls,                   \* the gateway calls of the last handler run, in order
    op,                      \* the last handler run: its name and arguments
    outcome,                 \* how it ended: "ok", "rejected", "caught", "raised"
    race,                    \* two threads refreshing one position, step by step
    scan,                    \* a tick's scan of the watches, step by step
    strategy                 \* strategy_active, strategy_thread and the threads

vars == <<last_tick, trigger_trigger_orders, sltp_cfg, last_position, _pause,
          tp_with_trigger, cancel_tp, positions, subscribed, algo_orders,
          tto_seq, tto_accepted, calls, op, outcome, race, scan, strategy>>

(***************************************************************************)
(* The gateway.                                                            *)
(***************************************************************************)
\* the oracles of a handler run that makes at most n calls, at most f failing
Oracles(n, f) ==
    UNION { [S -> {"rej", "exc"}] :
            S \in { T \in SUBSET (1..n) : Cardinality(T) <= f } }

\* the oracle that fails no call
NoFault == <<>>

\* the outcome of the k-th call
Res(g, k) == IF k \in DOMAIN g THEN g[k] ELSE "ok"

\* The working state of a handler run: the data it reads and writes and the
\* exchange, threaded through its steps; err is set while an exception unwinds.
Start ==
    [ex |-> algo_orders, calls |-> <<>>, err |-> FALSE,
     cfg |-> sltp_cfg, sub |-> subscribed,
     tto |-> trigger_trigger_orders, acc |-> tto_accepted]

NoIds == <<>>

\* one call record of the log
CallRec(api, inst, side, posSide, px, sz, ids, res, why, ref) ==
    [api |-> api, inst |-> inst, side |-> side, posSide |-> posSide,
     px |-> px, sz |-> sz, ids |-> ids, res |-> res, why |-> why, ref |-> ref]

\* ccxt.private_post_trade_order_algo with ordType trigger, orderPx -1.
\* why and ref tag the request with its purpose ("sl", "tp", "tto") and, for a
\* second leg, with the watch it belongs to; the exchange does not read them.
\* The exchange accepts the order unless the call fails or it is full.
SubmitRes(m, g) ==
    LET r == Res(g, Len(m.calls) + 1)
    IN  IF r = "ok" /\ Len(m.ex) >= MaxOrders THEN "rej" ELSE r

send_trigger_order(m, g, inst, side, posSide, px, sz, why, ref) ==
    LET r == SubmitRes(m, g)
        c == CallRec("order-algo", inst, side, posSide, px, sz, NoIds, r, why, ref)
        o == [inst |-> inst, side |-> side, posSide |-> posSide,
              px |-> px, sz |-> sz, ordPx |-> Z(-1), why |-> why]
    IN  [m EXCEPT !.calls = Append(@, c),
                  !.ex = IF r = "ok" THEN Append(@, o) ELSE @]

\* the result of the call just made
LastRes(m) == m.calls[Len(m.calls)].res


\* what a handler run leaves behind
Commit(m) ==
    /\ algo_orders' = m.ex
    /\ calls' = m.calls
    /\ sltp_cfg' = m.cfg
    /\ subscribed' = m.sub
    /\ trigger_trigger_orders' = m.tto
    /\ tto_accepted' = m.acc

(***************************************************************************)
(* Trigger-trigger orders.                                                 *)
(***************************************************************************)
Sides == {"buy", "sell", "hold"}

\* the queue of a symbol as the scan sees it (no entry: nothing to scan)
QueueOf(tto, sym) == IF Has(tto, sym) THEN tto[sym] ELSE <<>>

RemoveAt(q, i) == [k \in 1..(Len(q) - 1) |-> IF k < i THEN q[k] ELSE q[k + 1]]

\* set_trigger_trigger_order: the two early returns
CreateRejected(side, trigPx1, last_price) ==
    \/ side = "buy" /\ RLt(last_price, trigPx1)
    \/ side = "sell" /\ RLt(trigPx1, last_price)

\* set_trigger_trigger_order reads self.last_tick[vt_symbol] only for a buy or
\* a sell (the operands of `and` are evaluated left to right): KeyError
CreateRaises(sym, side) == side \in {"buy", "sell"} /\ ~Has(last_tick, sym)

\* a create that puts the new watch at the head of the queue
CreateQueue_Prepend(tto, sym, tto_data, clean_others) ==
    IF ~Has(tto, sym) \/ clean_others THEN <<tto_data>>
    ELSE <<tto_data>> \o tto[sym]

\* the queue after an accepted create
CreateQueue(tto, sym, tto_data, clean_others) ==
    IF ~Has(tto, sym) \/ clean_others THEN <<tto_data>>
    ELSE Append(tto[sym], tto_data)

set_trigger_trigger_order(sym, side, trigPx1, trigPx2, volume, orderPx, clean_others) ==
    LET tto_data == [vt_symbol |-> sym, side |-> side, trigPx1 |-> trigPx1,
                     trigPx2 |-> trigPx2, volume |-> volume, orderPx |-> orderPx,
                     id |-> tto_seq + 1]
        raises == CreateRaises(sym, side)
        rejected == ~raises /\ side \in {"buy", "sell"}
                    /\ CreateRejected(side, trigPx1, last_tick[sym].last_price)
    IN  /\ tto_seq < MaxTTO
        /\ op' = [name |-> "create", sym |-> sym,
                  arg |-> [tto_data EXCEPT !.id = 0], flag |-> clean_others]
        /\ calls' = <<>>
        /\ IF raises \/ rejected
           THEN /\ outcome' = IF raises THEN "raised" ELSE "rejected"
                /\ UNCHANGED <<trigger_trigger_orders, tto_seq>>
           ELSE /\ outcome' = "ok"
                /\ trigger_trigger_orders' =
                       Put(trigger_trigger_orders, sym,
                           CreateQueue(trigger_trigger_orders, sym, tto_data,
                                       clean_others))
                /\ tto_seq' = tto_seq + 1
        /\ UNCHANGED <<last_tick, sltp_cfg, last_position, _pause, tp_with_trigger,
                       cancel_tp, positions, subscribed, algo_orders, tto_accepted,
                   race, scan, strategy>>

\* a scan that treats every side other than 'buy' as 'sell'
Crossed_OtherAsSell(tto, price) ==
    \/ tto.side = "buy" /\ RLt(price, tto.trigPx1)
    \/ tto.side # "buy" /\ RLt(tto.trigPx1, price)

\* check_trigger_trigger_order: does the tick cross the first trigger
Crossed(tto, price) ==
    \/ tto.side = "buy" /\ RLt(price, tto.trigPx1)
    \/ tto.side = "sell" /\ RLt(tto.trigPx1, price)

TTOPosSide(tto) == IF tto.side = "buy" THEN "long" ELSE "short"

\* a scan that drops the watch whatever the gateway answered
AfterSecondLeg_PopAlways(m, sym, i) ==
    LET tto == m.tto[sym][i]
    IN  CASE LastRes(m) = "ok" ->
                 [m EXCEPT !.tto[sym] = RemoveAt(@, i),
                           !.acc[tto.id] = @ + 1]
          [] LastRes(m) = "rej" -> [m EXCEPT !.tto[sym] = RemoveAt(@, i)]
          [] OTHER -> [m EXCEPT !.err = TRUE]

\* the branch after send_trigger_order returned: data['code'] == '0' pops the
\* watch, another code logs, no response (None) raises TypeError
AfterSecondLeg(m, sym, i) ==
    LET tto == m.tto[sym][i]
    IN  CASE LastRes(m) = "ok" ->
                 [m EXCEPT !.tto[sym] = RemoveAt(@, i),
                           !.acc[tto.id] = @ + 1]
          [] LastRes(m) = "rej" -> m
          [] OTHER -> [m EXCEPT !.err = TRUE]

\* a scan that submits the second leg at the watch's orderPx
ScanStep_AtOrderPx(m, g, sym, price, i) ==
    IF i > Len(m.tto[sym])
    THEN [m EXCEPT !.err = TRUE]
    ELSE LET tto == m.tto[sym][i]
         IN  IF Crossed(tto, price)
             THEN AfterSecondLeg(
                      send_trigger_order(m, g, sym, tto.side, TTOPosSide(tto),
                                         tto.orderPx, tto.volume, "tto", tto.id),
                      sym, i)
             ELSE m

\* one pass of `for i in range(0, len(ttos))` (i is 1-based here)
ScanStep(m, g, sym, price, i) ==
    IF i > Len(m.tto[sym])
    THEN [m EXCEPT !.err = TRUE]   \* ttos[i]: IndexError
    ELSE LET tto == m.tto[sym][i]
         IN  IF Crossed(tto, price)
             THEN AfterSecondLeg(
                      send_trigger_order(m, g, sym, tto.side, TTOPosSide(tto),
                                         tto.trigPx2, tto.volume, "tto", tto.id),
                      sym, i)
             ELSE m

\* the indices of the scan are fixed when the loop starts: range(0, len(ttos))
RECURSIVE ScanTTO(_, _, _, _, _, _)
ScanTTO(m, g, sym, price, i, n) ==
    IF i > n \/ m.err THEN m
    ELSE ScanTTO(ScanStep(m, g, sym, price, i), g, sym, price, i + 1, n)

check_trigger_trigger_order(m, g, tick) ==
    IF ~Has(m.tto, tick.vt_symbol) THEN m
    ELSE ScanTTO(m, g, tick.vt_symbol, tick.last_price, 1,
                 Len(m.tto[tick.vt_symbol]))

process_tick_event(tick, g) ==
    LET m == check_trigger_trigger_order(Start, g, tick)
    IN  /\ op' = [name |-> "tick", sym |-> tick.vt_symbol, arg |-> tick, flag |-> FALSE]
        /\ last_tick' = Put(last_tick, tick.vt_symbol, tick)
        /\ Commit(m)
        /\ outcome' = IF m.err THEN "caught" ELSE "ok"
        /\ UNCHANGED <<last_position, _pause, tp_with_trigger, cancel_tp,
                       positions, tto_seq,
                   race, scan, strategy>>

\* a clearAll that keeps the queues of the symbols and empties nothing
cleanup_ttos_KeepQueues ==
    /\ op' = [name |-> "cleanup_ttos", sym |-> "", arg |-> NoArg, flag |-> FALSE]
    /\ calls' = <<>>
    /\ outcome' = "ok"
    /\ UNCHANGED <<last_tick, trigger_trigger_orders, sltp_cfg, last_position,
                   _pause, tp_with_trigger, cancel_tp, positions, subscribed,
                   algo_orders, tto_seq, tto_accepted, race, scan, strategy>>

cleanup_ttos ==
    /\ op' = [name |-> "cleanup_ttos", sym |-> "", arg |-> NoArg, flag |-> FALSE]
    /\ trigger_trigger_orders' = EmptyDict
    /\ calls' = <<>>
    /\ outcome' = "ok"
    /\ UNCHANGED <<last_tick, sltp_cfg, last_position, _pause, tp_with_trigger,
                   cancel_tp, positions, subscribed, algo_orders, tto_seq,
                   tto_accepted,
                   race, scan, strategy>>

(***************************************************************************)
(* The engine after construction (OKXEngine.__init__).                     *)
(***************************************************************************)
\* the threads that call the engine: the event engine's dispatcher runs the
\* handlers, the strategy thread runs the script's calls
Threads == {"dispatcher", "strategy"}

\* no refresh in progress; the exchange holds the orders ex (their algoIds)
RaceIdle ==
    [pc |-> [t \in Threads |-> "idle"], snap |-> [t \in Threads |-> {}],
     ex |-> {}, next |-> 1]

\* no scan in progress
ScanIdle ==
    [pc |-> "idle", sym |-> "", price |-> Z(0), list |-> <<>>, live |-> FALSE,
     dict_live |-> FALSE, size |-> 0, i |-> 0, n |-> 0, err |-> "",
     orphan |-> FALSE]

\* CryptoEngineBase.__init__: no strategy thread; alive are the threads that
\* were started and have not ended, started counts the threads ever started,
\* pc is where the caller of stop_strategy stands
StrategyIdle ==
    [strategy_active |-> FALSE, strategy_thread |-> 0, alive |-> {},
     started |-> 0, pc |-> "idle"]

Init ==
    /\ race = RaceIdle
    /\ scan = ScanIdle
    /\ strategy = StrategyIdle
    /\ last_tick = EmptyDict
    /\ trigger_trigger_orders = EmptyDict
    /\ sltp_cfg = EmptyDict
    /\ last_position = EmptyDict
    /\ _pause = FALSE
    /\ tp_with_trigger = TRUE
    /\ cancel_tp = TRUE
    /\ positions = <<>>
    /\ subscribed = {}
    /\ algo_orders = <<>>
    /\ tto_seq = 0
    /\ tto_accepted = [i \in 1..MaxTTO |-> 0]
    /\ calls = <<>>
    /\ op = [name |-> "init", sym |-> "", arg |-> NoArg, flag |-> FALSE]
    /\ outcome = "ok"

(***************************************************************************)
(* The reversal watcher alone: ticks, creates and clears.                  *)
(***************************************************************************)
TickPrices == {Z(1), Z(2), Z(3)}
TTOInputs ==
    [side : Sides, trigPx1 : {Z(2)}, trigPx2 : {Z(4)}, volume : {Z(7)},
     orderPx : {Z(5)}]

TickTTO ==
    \E sym \in Symbols, price \in TickPrices :
        \E g \in Oracles(Len(QueueOf(trigger_trigger_orders, sym)), MaxTickFaults) :
            process_tick_event([vt_symbol |-> sym, last_price |-> price], g)

CreateTTO ==
    \E sym \in Symbols, w \in TTOInputs, clean_others \in BOOLEAN :
        set_trigger_trigger_order(sym, w.side, w.trigPx1, w.trigPx2, w.volume,
                                  w.orderPx, clean_others)

ClearTTO == cleanup_ttos

NextTTO == TickTTO \/ CreateTTO \/ ClearTTO

SpecTTO == Init /\ [][NextTTO]_vars

(***************************************************************************)
(* Properties of the reversal watcher.                                     *)
(***************************************************************************)
\* the tick price lies beyond the watch's first trigger, on its side
TickCrosses(w, price) ==
    \/ w.side = "sell" /\ RLt(w.trigPx1, price)
    \/ w.side = "buy" /\ RLt(price, w.trigPx1)

AllAccepted(log) == \A k \in 1..Len(log) : log[k].res = "ok"

\* the watches of a queue, as the set of their ids
IdsOf(q) == {q[k].id : k \in 1..Len(q)}

\* the second-leg submissions of a log for watch id
SubmissionsFor(log, id) ==
    {k \in 1..Len(log) : log[k].api = "order-algo" /\ log[k].ref = id}

\* C1: TTO fire-once.  On a tick whose submissions the gateway all accepts,
\* every pending watch whose first trigger the tick crosses is submitted
\* exactly once and is gone from its queue afterwards.
C1_FireOnceOnCrossing ==
    [][ (op'.name = "tick" /\ AllAccepted(calls'))
        => LET q == QueueOf(trigger_trigger_orders, op'.sym)
           IN  \A i \in 1..Len(q) :
                   TickCrosses(q[i], op'.arg.last_price)
                   => /\ Cardinality(SubmissionsFor(calls', q[i].id)) = 1
                      /\ q[i].id \notin
                             IdsOf(QueueOf(trigger_trigger_orders', op'.sym)) ]_vars

\* the ids of the crossed watches of a queue, in queue order
RECURSIVE CrossedRefs(_, _)
CrossedRefs(q, price) ==
    IF q = <<>> THEN <<>>
    ELSE (IF TickCrosses(Head(q), price) THEN <<Head(q).id>> ELSE <<>>)
         \o CrossedRefs(Tail(q), price)

\* C2: every pending watch the tick crosses gets its second-leg order
\* submitted on that tick, in insertion order, whatever happens to the other
\* watches of the queue on that tick.
C2_EveryCrossedWatchSubmitted ==
    [][ op'.name = "tick"
        => [k \in 1..Len(calls') |-> calls'[k].ref]
           = CrossedRefs(QueueOf(trigger_trigger_orders, op'.sym),
                         op'.arg.last_price) ]_vars

\* C3: an accepted create of a buy watch has its first trigger strictly below
\* the cached tick price, of a sell watch strictly above; any other create of
\* a buy or sell watch leaves the queues as they were.
C3_CreateOnlyOnCorrectSide ==
    [][ (op'.name = "create" /\ op'.arg.side \in {"buy", "sell"})
        => IF /\ Has(last_tick, op'.sym)
              /\ \/ op'.arg.side = "buy"
                    /\ RLt(op'.arg.trigPx1, last_tick[op'.sym].last_price)
                 \/ op'.arg.side = "sell"
                    /\ RLt(last_tick[op'.sym].last_price, op'.arg.trigPx1)
           THEN outcome' = "ok"
           ELSE /\ outcome' # "ok"
                /\ trigger_trigger_orders' = trigger_trigger_orders ]_vars

\* C4: a watch whose second-leg submission failed on a tick is still pending,
\* and the next tick of its symbol that crosses its first trigger submits it
\* again.
C4_FailedWatchRetried ==
    [][ (op.name = "tick" /\ op'.name = "tick" /\ op'.sym = op.sym)
        => \A k \in 1..Len(calls) :
               calls[k].res # "ok"
               => LET q == QueueOf(trigger_trigger_orders, op.sym)
                  IN  /\ calls[k].ref \in IdsOf(q)
                      /\ \A i \in 1..Len(q) :
                             (q[i].id = calls[k].ref
                              /\ TickCrosses(q[i], op'.arg.last_price))
                             => SubmissionsFor(calls', q[i].id) # {} ]_vars

(***************************************************************************)
(* Protective orders: engine settings.                                     *)
(***************************************************************************)
default_sl  == R(-35, 100)
default_tp  == R(155, 100)
self_offset == R(1, 10)
max_tp      == Z(1)
\* cancel_all_trigger_orders: ids per cancel request
CancelBatch == 10
\* vt_symbol=None
NoSymbol == "None"
\* a refresh whose offset defaults to the engine's
DefaultOffset_Engine == self_offset
\* the default of set_trigger_cover_positions' parameter offset
DefaultOffset == Z(0)
\* the default of set_trigger_cover_current_positions' parameter offset
DefaultLockOffset == R(5, 100)
NoPx == Z(0)

Min(a, b) == IF a < b THEN a ELSE b

\* Python's round(x) to an integer: to the nearest, a tie to the even one
PyRound(x) ==
    LET fl == x.n \div x.d
        twice == 2 * (x.n - fl * x.d)
    IN  IF twice < x.d THEN fl
        ELSE IF twice > x.d THEN fl + 1
        ELSE IF fl % 2 = 0 THEN fl ELSE fl + 1

\* sz = str(round(position.volume))
SizeOf(position) == Z(PyRound(position.volume))

\* an order side that opens in the position's direction
CloseSide_SameDirection(position) ==
    IF position.direction = "long" THEN "buy" ELSE "sell"

CloseSide(position) == IF position.direction = "long" THEN "sell" ELSE "buy"
PosSideOf(side) == IF side = "buy" THEN "short" ELSE "long"

(***************************************************************************)
(* cancel_all_trigger_orders.                                              *)
(***************************************************************************)
\* the elements of a sequence whose index is not in gone
RECURSIVE Without(_, _, _)
Without(seq, gone, i) ==
    IF i > Len(seq) THEN <<>>
    ELSE (IF i \in gone THEN <<>> ELSE <<seq[i]>>) \o Without(seq, gone, i + 1)

\* a selection that takes every pending order of the instrument, whatever
\* its position side
RECURSIVE SelectOrders_IgnoreSide(_, _, _, _)
SelectOrders_IgnoreSide(ex, sym, side, i) ==
    IF i > Len(ex) THEN <<>>
    ELSE (IF sym = NoSymbol \/ ex[i].inst = sym THEN <<i>> ELSE <<>>)
         \o SelectOrders_IgnoreSide(ex, sym, side, i + 1)

\* the indices i..Len(ex) of the pending orders of an instrument that the
\* side filter keeps, in the order of the response
RECURSIVE SelectOrders(_, _, _, _)
SelectOrders(ex, sym, side, i) ==
    IF i > Len(ex) THEN <<>>
    ELSE (IF /\ (sym = NoSymbol \/ ex[i].inst = sym)
             /\ (side = "all" \/ ex[i].posSide = side)
          THEN <<i>> ELSE <<>>)
         \o SelectOrders(ex, sym, side, i + 1)

\* for i in range(0, len(orders), 10): cancel_trigger_orders(orders[i:i+10]);
\* a failed request is only logged.  gone collects the orders cancelled.
RECURSIVE CancelBatches(_, _, _, _, _, _, _)
CancelBatches(m, g, ids, gone, sym, side, why) ==
    IF ids = <<>> THEN [m EXCEPT !.ex = Without(@, gone, 1)]
    ELSE LET n == Min(Len(ids), CancelBatch)
             batch == SubSeq(ids, 1, n)
             r == Res(g, Len(m.calls) + 1)
             c == CallRec("cancel-algos", sym, "", side, NoPx, NoPx, batch, r, why, 0)
         IN  CancelBatches([m EXCEPT !.calls = Append(@, c)], g,
                           SubSeq(ids, n + 1, Len(ids)),
                           IF r = "ok" THEN gone \cup {batch[k] : k \in 1..n}
                           ELSE gone,
                           sym, side, why)

\* get_trigger_orders, then the filter by posSide, then the cancel requests.
\* No response (None) or an empty 'data' list returns at once.
cancel_all_trigger_orders(m, g, sym, side, why) ==
    LET r == Res(g, Len(m.calls) + 1)
        c == CallRec("orders-algo-pending", sym, "", side, NoPx, NoPx, NoIds, r, why, 0)
        m1 == [m EXCEPT !.calls = Append(@, c)]
    IN  IF r # "ok" \/ SelectOrders(m.ex, sym, "all", 1) = <<>> THEN m1
        ELSE CancelBatches(m1, g, SelectOrders(m.ex, sym, side, 1), {}, sym, side, why)

\* cover_position: a market order closing the position; the response is dropped
\* and an exception is logged
cover_position(m, g, position) ==
    LET r == Res(g, Len(m.calls) + 1)
        side == CloseSide(position)
        c == CallRec("order", position.vt_symbol, side, PosSideOf(side), Z(-1),
                     SizeOf(position), NoIds, r, "close", 0)
    IN  [m EXCEPT !.calls = Append(@, c)]

(***************************************************************************)
(* set_trigger_cover_positions.                                            *)
(***************************************************************************)
\* 1 + x / lever and 1 - x / lever
OnePlus(x, lever)  == RAdd(Z(1), RDiv(x, lever))
OneMinus(x, lever) == RSub(Z(1), RDiv(x, lever))

\* a short stop-loss that takes the tick price for the entry price
StopLossShort_TickAsEntry(position, sl, offset, use_tick_price, use_max_tp, last_price) ==
    LET liqPrice == position.liqPrice
        lever == position.lever
        base == IF use_tick_price THEN last_price ELSE position.price
        t0 == RMul(base, OneMinus(RSub(sl, offset), lever))
        t1 == IF RLe(liqPrice, t0)
              THEN RMul(liqPrice, OneMinus(self_offset, lever))
              ELSE t0
    IN  IF ~use_tick_price /\ use_max_tp /\ RLt(max_tp, position.pnlRatio)
        THEN RMul(position.price, OnePlus(RSub(max_tp, self_offset), lever))
        ELSE t1

\* a short stop-loss that is never moved below the liquidation price
StopLossShort_NoClamp(position, sl, offset, use_tick_price, use_max_tp, last_price) ==
    IF use_tick_price
    THEN RMul(last_price, OnePlus(offset, position.lever))
    ELSE RMul(position.price, OneMinus(RSub(sl, offset), position.lever))

\* the stop-loss trigger price of a short position
StopLossShort(position, sl, offset, use_tick_price, use_max_tp, last_price) ==
    LET liqPrice == position.liqPrice
        lever == position.lever
        t0 == IF use_tick_price
              THEN RMul(last_price, OnePlus(offset, lever))
              ELSE RMul(position.price, OneMinus(RSub(sl, offset), lever))
        t1 == IF RLe(liqPrice, t0)
              THEN RMul(liqPrice, OneMinus(self_offset, lever))
              ELSE t0
    IN  IF ~use_tick_price /\ use_max_tp /\ RLt(max_tp, position.pnlRatio)
        THEN RMul(position.price, OnePlus(RSub(max_tp, self_offset), lever))
        ELSE t1

\* a long stop-loss clamped only below the liquidation price
StopLossLong_StrictClamp(position, sl, offset, use_tick_price, use_max_tp, last_price) ==
    LET liqPrice == position.liqPrice
        lever == position.lever
        t0 == IF use_tick_price
              THEN RMul(last_price, OneMinus(offset, lever))
              ELSE RMul(position.price, OnePlus(RAdd(sl, offset), lever))
        t1 == IF RLt(t0, liqPrice)
              THEN RMul(liqPrice, OnePlus(self_offset, lever))
              ELSE t0
    IN  IF ~use_tick_price /\ use_max_tp /\ RLt(max_tp, position.pnlRatio)
        THEN RMul(position.price, OneMinus(RAdd(max_tp, self_offset), lever))
        ELSE t1

\* the stop-loss trigger price of a long position
StopLossLong(position, sl, offset, use_tick_price, use_max_tp, last_price) ==
    LET liqPrice == position.liqPrice
        lever == position.lever
        t0 == IF use_tick_price
              THEN RMul(last_price, OneMinus(offset, lever))
              ELSE RMul(position.price, OnePlus(RAdd(sl, offset), lever))
        t1 == IF RLe(t0, liqPrice)
              THEN RMul(liqPrice, OnePlus(self_offset, lever))
              ELSE t0
    IN  IF ~use_tick_price /\ use_max_tp /\ RLt(max_tp, position.pnlRatio)
        THEN RMul(position.price, OneMinus(RAdd(max_tp, self_offset), lever))
        ELSE t1

StopLossPrice(position, sl, offset, use_tick_price, use_max_tp, last_price) ==
    IF position.direction = "short"
    THEN StopLossShort(position, sl, offset, use_tick_price, use_max_tp, last_price)
    ELSE StopLossLong(position, sl, offset, use_tick_price, use_max_tp, last_price)

\* the take-profit trigger price of the refresh (used when not tp_with_trigger)
RefreshTakeProfitPrice(position, tp, offset) ==
    IF position.direction = "short"
    THEN RMul(position.price, OneMinus(RSub(tp, offset), position.lever))
    ELSE RMul(position.price, OnePlus(RAdd(tp, offset), position.lever))

\* defaults installed with stop-loss and take-profit exchanged
WithDefaults_Swapped(cfg, sym) ==
    IF Has(cfg, sym) THEN cfg
    ELSE Put(cfg, sym, [stoploss |-> default_tp, takeprofit |-> default_sl])

\* the configuration after the lookup: an unconfigured symbol gets the defaults
WithDefaults(cfg, sym) ==
    IF Has(cfg, sym) THEN cfg
    ELSE Put(cfg, sym, [stoploss |-> default_sl, takeprofit |-> default_tp])

\* a submission whose response is None makes data['code'] raise TypeError
AfterSubmit(m) == IF LastRes(m) = "exc" THEN [m EXCEPT !.err = TRUE] ELSE m

\* the stop-loss part of the loop body, for an open position
RefreshStopLoss(m, g, position, a) ==
    LET sym == position.vt_symbol
        side == CloseSide(position)
        sl == m.cfg[sym].stoploss
    IN  IF a.use_tick_price /\ ~Has(last_tick, sym)
        THEN [m EXCEPT !.err = TRUE]     \* self.last_tick[...]: KeyError
        ELSE AfterSubmit(
                 send_trigger_order(m, g, sym, side, PosSideOf(side),
                     StopLossPrice(position, sl, a.offset, a.use_tick_price,
                                   a.use_max_tp,
                                   IF Has(last_tick, sym)
                                   THEN last_tick[sym].last_price ELSE NoPx),
                     SizeOf(position), "sl", 0))

\* the take-profit part of the loop body
RefreshTakeProfit(m, g, position, a) ==
    LET sym == position.vt_symbol
        side == CloseSide(position)
    IN  IF m.err \/ tp_with_trigger THEN m
        ELSE AfterSubmit(
                 send_trigger_order(m, g, sym, side, PosSideOf(side),
                     RefreshTakeProfitPrice(position, m.cfg[sym].takeprofit, a.offset),
                     SizeOf(position), "tp", 0))

\* a refresh that goes on to cover a position of volume zero
RefreshOne_CoverZero(m, g, position, a) ==
    LET sym == position.vt_symbol
        m1 == IF a.cancel_all
              THEN cancel_all_trigger_orders(m, g, sym, position.direction, "sl")
              ELSE m
        m2 == [m1 EXCEPT !.cfg = WithDefaults(@, sym),
                         !.sub = IF Has(m1.cfg, sym) THEN @ ELSE @ \cup {sym}]
    IN  IF a.vt_symbol # NoSymbol /\ sym # a.vt_symbol THEN m
        ELSE IF a.use_tick_price /\ a.use_max_tp
             THEN [m2 EXCEPT !.err = TRUE]
        ELSE RefreshTakeProfit(RefreshStopLoss(m2, g, position, a), g, position, a)

\* the body of `for position in positions`
RefreshOne(m, g, position, a) ==
    LET sym == position.vt_symbol
        m1 == IF a.cancel_all
              THEN cancel_all_trigger_orders(m, g, sym, position.direction, "sl")
              ELSE m
        m2 == [m1 EXCEPT !.cfg = WithDefaults(@, sym),
                         !.sub = IF Has(m1.cfg, sym) THEN @ ELSE @ \cup {sym}]
    IN  IF a.vt_symbol # NoSymbol /\ sym # a.vt_symbol THEN m
        ELSE IF position.volume = Z(0) THEN m1
        ELSE IF a.use_tick_price /\ a.use_max_tp
             THEN [m2 EXCEPT !.err = TRUE]      \* AssertionError
        ELSE RefreshTakeProfit(RefreshStopLoss(m2, g, position, a), g, position, a)

RECURSIVE RefreshFrom(_, _, _, _, _)
RefreshFrom(m, g, pos, a, i) ==
    IF i > Len(pos) \/ m.err THEN m
    ELSE RefreshFrom(RefreshOne(m, g, pos[i], a), g, pos, a, i + 1)

\* a: [cancel_all, offset, use_tick_price, use_max_tp, vt_symbol]; pos is
\* what get_all_positions returns
set_trigger_cover_positions(m, g, pos, a) == RefreshFrom(m, g, pos, a, 1)

\* a refresh that does not cancel
RefreshArgs_NoCancel(sym) ==
    [cancel_all |-> FALSE, offset |-> DefaultOffset, use_tick_price |-> FALSE,
     use_max_tp |-> FALSE, vt_symbol |-> sym]

\* the arguments of the callers that pass only vt_symbol
RefreshArgs(sym) ==
    [cancel_all |-> TRUE, offset |-> DefaultOffset, use_tick_price |-> FALSE,
     use_max_tp |-> FALSE, vt_symbol |-> sym]

set_trigger_cover_current_positions(m, g, pos, offset, sym) ==
    set_trigger_cover_positions(m, g, pos,
        [cancel_all |-> FALSE, offset |-> offset, use_tick_price |-> TRUE,
         use_max_tp |-> FALSE, vt_symbol |-> sym])

(***************************************************************************)
(* Position events: check_sl_tp.                                           *)
(***************************************************************************)
\* main_engine keeps one position per symbol and direction (vt_positionid); it
\* handles the position event before the engine does
RECURSIVE IndexOfPosition(_, _, _)
IndexOfPosition(pos, position, i) ==
    IF i > Len(pos) THEN 0
    ELSE IF /\ pos[i].vt_symbol = position.vt_symbol
            /\ pos[i].direction = position.direction
         THEN i
         ELSE IndexOfPosition(pos, position, i + 1)

Upsert(pos, position) ==
    IF IndexOfPosition(pos, position, 1) = 0 THEN Append(pos, position)
    ELSE [pos EXCEPT ![IndexOfPosition(pos, position, 1)] = position]

\* a check_sl_tp that refreshes on every snapshot
NeedsRefresh_Always(position) == TRUE

\* a guard that keeps one snapshot per symbol and direction, as main_engine
\* does
NeedsRefresh_PerDirection(position) ==
    \/ IndexOfPosition(positions, position, 1) = 0
    \/ position.volume #
           positions[IndexOfPosition(positions, position, 1)].volume

\* check_sl_tp refreshes the protective orders on the first snapshot of a
\* symbol and when the volume differs from the cached snapshot's
NeedsRefresh(position) ==
    \/ ~Has(last_position, position.vt_symbol)
    \/ position.volume # last_position[position.vt_symbol].volume

\* the trailing take-profit trigger price of check_sl_tp
TakeProfitTriggerPrice(position, last_price) ==
    IF position.direction = "long"
    THEN IF RLt(max_tp, position.pnlRatio)
         THEN RMul(position.price,
                   OnePlus(RSub(max_tp, self_offset), position.lever))
         ELSE RMul(last_price, OneMinus(self_offset, position.lever))
    ELSE IF RLt(max_tp, position.pnlRatio)
         THEN RMul(position.price,
                   OneMinus(RAdd(max_tp, self_offset), position.lever))
         ELSE RMul(last_price, OnePlus(self_offset, position.lever))

\* `if sl and position.pnlRatio < sl`
StopLossHit(position, sl) == sl # Z(0) /\ RLt(position.pnlRatio, sl)
\* `if tp and position.pnlRatio > tp`
TakeProfitHit(position, tp) == tp # Z(0) /\ RLt(tp, position.pnlRatio)

\* a take-profit branch that never cancels
TakeProfitByTrigger_NoCancel(m, g, position) ==
    LET sym == position.vt_symbol
        side == CloseSide(position)
    IN  IF ~Has(last_tick, sym) THEN [m EXCEPT !.err = TRUE]
        ELSE AfterSubmit(
                 send_trigger_order(m, g, sym, side, PosSideOf(side),
                     TakeProfitTriggerPrice(position, last_tick[sym].last_price),
                     SizeOf(position), "tp", 0))

\* the take-profit branch with tp_with_trigger
TakeProfitByTrigger(m, g, position) ==
    LET sym == position.vt_symbol
        side == CloseSide(position)
        m1 == IF cancel_tp
              THEN cancel_all_trigger_orders(m, g, sym, PosSideOf(side), "tp")
              ELSE m
    IN  IF ~Has(last_tick, sym) THEN [m EXCEPT !.err = TRUE]   \* KeyError
        ELSE AfterSubmit(
                 send_trigger_order(m1, g, sym, side, PosSideOf(side),
                     TakeProfitTriggerPrice(position, last_tick[sym].last_price),
                     SizeOf(position), "tp", 0))

\* the loop over self.sltp_cfg.items(): only the position's symbol is looked at
CheckThresholds(m, g, position) ==
    LET sym == position.vt_symbol
        sl == m.cfg[sym].stoploss
        tp == m.cfg[sym].takeprofit
        m1 == IF StopLossHit(position, sl) THEN cover_position(m, g, position) ELSE m
    IN  IF ~TakeProfitHit(position, tp) THEN m1
        ELSE IF tp_with_trigger THEN TakeProfitByTrigger(m1, g, position)
        ELSE cover_position(m1, g, position)

check_sl_tp(m, g, pos, position) ==
    LET m1 == IF NeedsRefresh(position)
              THEN set_trigger_cover_positions(m, g, pos,
                                               RefreshArgs(position.vt_symbol))
              ELSE m
    IN  IF m1.err THEN m1
        ELSE IF ~RLt(Z(0), position.volume) THEN m1
        ELSE IF ~Has(m1.cfg, position.vt_symbol) THEN m1
        ELSE CheckThresholds(m1, g, position)

\* a handler that evaluates the position although the engine is paused
PositionRun_IgnorePause(position, g) ==
    check_sl_tp(Start, g, Upsert(positions, position), position)

\* the handler's run: main_engine has stored the position; a paused engine
\* skips check_sl_tp
PositionRun(position, g) ==
    IF _pause THEN Start
    ELSE check_sl_tp(Start, g, Upsert(positions, position), position)

\* a handler that keeps the cached snapshot while the engine is paused
RecordPosition_UnlessPaused(position) ==
    IF _pause THEN last_position
    ELSE Put(last_position, position.vt_symbol, position)

\* `self.last_position[position.vt_symbol] = position`, after the try block
RecordPosition(position) == Put(last_position, position.vt_symbol, position)

process_position_event(position, g) ==
    LET pos == Upsert(positions, position)
        m == PositionRun(position, g)
    IN  /\ op' = [name |-> "position", sym |-> position.vt_symbol,
                  arg |-> position, flag |-> FALSE]
        /\ positions' = pos
        /\ Commit(m)
        /\ outcome' = IF m.err THEN "caught" ELSE "ok"
        /\ last_position' = RecordPosition(position)
        /\ UNCHANGED <<last_tick, _pause, tp_with_trigger, cancel_tp, tto_seq,
                   race, scan, strategy>>

(***************************************************************************)
(* Operator commands.                                                      *)
(***************************************************************************)
\* an assignment that reaches every configured symbol
AssignStopLoss_All(cfg, k, v) ==
    [x \in DOMAIN cfg |-> [cfg[x] EXCEPT !.stoploss = v]]

\* self.sltp_cfg[k][field] = v
AssignStopLoss(cfg, k, v) == [cfg EXCEPT ![k].stoploss = v]
AssignTakeProfit(cfg, k, v) == [cfg EXCEPT ![k].takeprofit = v]

\* a command that writes the configuration and does not refresh
CommandWithRefresh_NoRefresh(name, sym, v, cfg, g) ==
    /\ op' = [name |-> name, sym |-> sym, arg |-> v, flag |-> FALSE]
    /\ Commit([Start EXCEPT !.cfg = cfg])
    /\ outcome' = "ok"
    /\ UNCHANGED <<last_tick, last_position, _pause, tp_with_trigger,
                   cancel_tp, positions, tto_seq,
                   race, scan, strategy>>

\* a command that takes its write back when the refresh raises
CommandWithRefresh_Rollback(name, sym, v, cfg, g) ==
    LET m == set_trigger_cover_positions([Start EXCEPT !.cfg = cfg], g,
                                         positions, RefreshArgs(sym))
    IN  /\ op' = [name |-> name, sym |-> sym, arg |-> v, flag |-> FALSE]
        /\ Commit(IF m.err THEN [m EXCEPT !.cfg = sltp_cfg] ELSE m)
        /\ outcome' = IF m.err THEN "raised" ELSE "ok"
        /\ UNCHANGED <<last_tick, last_position, _pause, tp_with_trigger,
                       cancel_tp, positions, tto_seq,
                   race, scan, strategy>>

\* a command whose refresh is skipped while the engine is paused
CommandWithRefresh_UnlessPaused(name, sym, v, cfg, g) ==
    LET m == IF _pause THEN [Start EXCEPT !.cfg = cfg]
             ELSE set_trigger_cover_positions([Start EXCEPT !.cfg = cfg], g,
                                              positions, RefreshArgs(sym))
    IN  /\ op' = [name |-> name, sym |-> sym, arg |-> v, flag |-> FALSE]
        /\ Commit(m)
        /\ outcome' = IF m.err THEN "raised" ELSE "ok"
        /\ UNCHANGED <<last_tick, last_position, _pause, tp_with_trigger,
                       cancel_tp, positions, tto_seq,
                   race, scan, strategy>>

\* a command that writes the configuration and then refreshes; an exception
\* of the refresh reaches the caller
CommandWithRefresh(name, sym, v, cfg, g) ==
    LET m == set_trigger_cover_positions([Start EXCEPT !.cfg = cfg], g,
                                         positions, RefreshArgs(sym))
    IN  /\ op' = [name |-> name, sym |-> sym, arg |-> v, flag |-> FALSE]
        /\ Commit(m)
        /\ outcome' = IF m.err THEN "raised" ELSE "ok"
        /\ UNCHANGED <<last_tick, last_position, _pause, tp_with_trigger,
                       cancel_tp, positions, tto_seq,
                   race, scan, strategy>>

\* self.sltp_cfg[vt_symbol]: KeyError for a symbol without configuration
CommandRaises(name, sym, v) ==
    /\ op' = [name |-> name, sym |-> sym, arg |-> v, flag |-> FALSE]
    /\ calls' = <<>>
    /\ outcome' = "raised"
    /\ UNCHANGED <<last_tick, trigger_trigger_orders, sltp_cfg, last_position,
                   _pause, tp_with_trigger, cancel_tp, positions, subscribed,
                   algo_orders, tto_seq, tto_accepted,
                   race, scan, strategy>>

set_sl(sym, sl, g) ==
    IF ~Has(sltp_cfg, sym) THEN CommandRaises("set_sl", sym, sl)
    ELSE CommandWithRefresh("set_sl", sym, sl, AssignStopLoss(sltp_cfg, sym, sl), g)

set_tp(sym, tp, g) ==
    IF ~Has(sltp_cfg, sym) THEN CommandRaises("set_tp", sym, tp)
    ELSE CommandWithRefresh("set_tp", sym, tp, AssignTakeProfit(sltp_cfg, sym, tp), g)

set_all_sl(sl, g) ==
    CommandWithRefresh("set_all_sl", NoSymbol, sl,
        [k \in DOMAIN sltp_cfg |-> [sltp_cfg[k] EXCEPT !.stoploss = sl]], g)

set_all_tp(tp, g) ==
    CommandWithRefresh("set_all_tp", NoSymbol, tp,
        [k \in DOMAIN sltp_cfg |-> [sltp_cfg[k] EXCEPT !.takeprofit = tp]], g)

\* lock_pos(offset=None, vt_symbol=None); the optional offset is <<>> or <<x>>
lock_pos(offset, sym, g) ==
    LET o == IF offset = <<>> THEN self_offset ELSE offset[1]
        m == set_trigger_cover_current_positions(Start, g, positions, o, sym)
    IN  /\ op' = [name |-> "lock_pos", sym |-> sym, arg |-> o, flag |-> FALSE]
        /\ Commit(m)
        /\ outcome' = IF m.err THEN "raised" ELSE "ok"
        /\ UNCHANGED <<last_tick, last_position, _pause, tp_with_trigger,
                       cancel_tp, positions, tto_seq,
                   race, scan, strategy>>

\* set_trigger_cover_positions called with arguments of the caller's choice
refresh(a, g) ==
    LET m == set_trigger_cover_positions(Start, g, positions, a)
    IN  /\ op' = [name |-> "refresh", sym |-> a.vt_symbol, arg |-> a, flag |-> FALSE]
        /\ Commit(m)
        /\ outcome' = IF m.err THEN "raised" ELSE "ok"
        /\ UNCHANGED <<last_tick, last_position, _pause, tp_with_trigger,
                       cancel_tp, positions, tto_seq,
                   race, scan, strategy>>

\* adjust_tp: one symbol
AdjustOne(cfg, sym, mul) ==
    AssignTakeProfit(cfg, sym, RMul(RAbs(cfg[sym].stoploss), mul))

\* adjust_tp: all symbols
AdjustAll(cfg, mul) ==
    [k \in DOMAIN cfg |-> [cfg[k] EXCEPT !.takeprofit = RMul(cfg[k].stoploss, mul)]]

\* an adjust_tp without the assertion on mul
adjust_tp_NoAssert(sym, mul) ==
    /\ op' = [name |-> "adjust_tp", sym |-> sym, arg |-> mul, flag |-> FALSE]
    /\ calls' = <<>>
    /\ outcome' = "ok"
    /\ sltp_cfg' = IF sym = NoSymbol THEN AdjustAll(sltp_cfg, mul)
                   ELSE IF Has(sltp_cfg, sym) THEN AdjustOne(sltp_cfg, sym, mul)
                   ELSE sltp_cfg
    /\ UNCHANGED <<last_tick, trigger_trigger_orders, last_position, _pause,
                   tp_with_trigger, cancel_tp, positions, subscribed, algo_orders,
                   tto_seq, tto_accepted,
                   race, scan, strategy>>

adjust_tp(sym, mul) ==
    /\ op' = [name |-> "adjust_tp", sym |-> sym, arg |-> mul, flag |-> FALSE]
    /\ calls' = <<>>
    /\ IF ~RLt(Z(0), mul)
       THEN outcome' = "raised" /\ UNCHANGED sltp_cfg      \* assert mul > 0
       ELSE /\ outcome' = "ok"
            /\ sltp_cfg' = IF sym = NoSymbol THEN AdjustAll(sltp_cfg, mul)
                           ELSE IF Has(sltp_cfg, sym) THEN AdjustOne(sltp_cfg, sym, mul)
                           ELSE sltp_cfg
    /\ UNCHANGED <<last_tick, trigger_trigger_orders, last_position, _pause,
                   tp_with_trigger, cancel_tp, positions, subscribed, algo_orders,
                   tto_seq, tto_accepted,
                   race, scan, strategy>>

pause ==
    /\ op' = [name |-> "pause", sym |-> "", arg |-> NoArg, flag |-> FALSE]
    /\ _pause' = (IF _pause = FALSE THEN TRUE ELSE _pause)
    /\ calls' = <<>>
    /\ outcome' = "ok"
    /\ UNCHANGED <<last_tick, trigger_trigger_orders, sltp_cfg, last_position,
                   tp_with_trigger, cancel_tp, positions, subscribed, algo_orders,
                   tto_seq, tto_accepted,
                   race, scan, strategy>>

resume ==
    /\ op' = [name |-> "resume", sym |-> "", arg |-> NoArg, flag |-> FALSE]
    /\ _pause' = (IF _pause = TRUE THEN FALSE ELSE _pause)
    /\ calls' = <<>>
    /\ outcome' = "ok"
    /\ UNCHANGED <<last_tick, trigger_trigger_orders, sltp_cfg, last_position,
                   tp_with_trigger, cancel_tp, positions, subscribed, algo_orders,
                   tto_seq, tto_accepted,
                   race, scan, strategy>>

(***************************************************************************)
(* The protection of one symbol: position events, ticks, set_sl, lock_pos. *)
(***************************************************************************)
Pos(sym, direction, volume, price, lever, liqPrice, pnlRatio) ==
    [vt_symbol |-> sym, direction |-> direction, volume |-> volume,
     price |-> price, lever |-> lever, liqPrice |-> liqPrice,
     pnlRatio |-> pnlRatio]

\* A failing call never makes a run longer, so the calls that can fail are
\* those of the run in which none fails.
CallsOf(m) == Len(m.calls)

ProtSymbols == {"S"}
\* a long position of entry 100, leverage 10, liquidation price 90, with
\* volume 1 and with volume 2
ProtPositions ==
    { Pos("S", "long", Z(1), Z(100), Z(10), Z(90), Z(0)),
      Pos("S", "long", Z(2), Z(100), Z(10), Z(90), Z(0)) }
ProtTickPrices == {Z(100)}
ProtStopLosses == {R(-1, 2)}
ProtLockOffsets == {<<>>}

TickProt ==
    \E sym \in ProtSymbols, price \in ProtTickPrices :
        process_tick_event([vt_symbol |-> sym, last_price |-> price], NoFault)

PositionProt ==
    \E position \in ProtPositions :
        \E g \in Oracles(CallsOf(PositionRun(position, NoFault)), MaxFaults) :
            process_position_event(position, g)

SetSlProt ==
    \E sym \in ProtSymbols, sl \in ProtStopLosses :
        \E g \in Oracles(CallsOf(set_trigger_cover_positions(
                              Start, NoFault, positions, RefreshArgs(sym))),
                          MaxFaults) :
            set_sl(sym, sl, g)

LockPosProt ==
    \E sym \in ProtSymbols, offset \in ProtLockOffsets :
        \E g \in Oracles(CallsOf(set_trigger_cover_current_positions(
                              Start, NoFault, positions, self_offset, sym)),
                          MaxFaults) :
            lock_pos(offset, sym, g)

NextProt == TickProt \/ PositionProt \/ SetSlProt \/ LockPosProt

SpecProt == Init /\ [][NextProt]_vars

(***************************************************************************)
(* Position events and ticks of one symbol.                                *)
(***************************************************************************)
\* the long position with volume 1 and 2, and with volume 1 below the
\* stop-loss (pnlRatio -0.6) and above the take-profit (pnlRatio 2)
EventPositions ==
    ProtPositions \cup
    { Pos("S", "long", Z(1), Z(100), Z(10), Z(90), R(-3, 5)),
      Pos("S", "long", Z(1), Z(100), Z(10), Z(90), Z(2)) }

PositionEvents ==
    \E position \in EventPositions :
        \E g \in Oracles(CallsOf(PositionRun(position, NoFault)), MaxFaults) :
            process_position_event(position, g)

NextEvents == TickProt \/ PositionEvents

SpecEvents == Init /\ [][NextEvents]_vars

(***************************************************************************)
(* Claims about the refresh on position events.                            *)
(***************************************************************************)
\* the event repeats the volume of the symbol's previous event
SameVolumeEvent ==
    /\ op'.name = "position"
    /\ Has(last_position, op'.sym)
    /\ last_position[op'.sym].volume = op'.arg.volume

\* the calls of a log made for the refresh (query, cancel, stop-loss)
RefreshCallsIn(log) == {k \in 1..Len(log) : log[k].why = "sl"}

\* the position crosses one of the symbol's thresholds
ThresholdCrossed(cfg, position) ==
    /\ Has(cfg, position.vt_symbol)
    /\ RLt(Z(0), position.volume)
    /\ \/ StopLossHit(position, cfg[position.vt_symbol].stoploss)
       \/ TakeProfitHit(position, cfg[position.vt_symbol].takeprofit)

StopLossCalls(log) ==
    {k \in 1..Len(log) : log[k].api = "order-algo" /\ log[k].why = "sl"}

\* the pending stop-loss orders of a symbol and position side
StopLossOrders(ex, inst, posSide) ==
    {i \in 1..Len(ex) : ex[i].why = "sl" /\ ex[i].inst = inst /\ ex[i].posSide = posSide}

\* the operations that refresh with cancel_all: position events and setters
CancellingOps == {"position", "set_sl", "set_tp", "set_all_sl", "set_all_tp"}

\* the k-th call of the log is a stop-loss submission made after a request
\* for the pending trigger orders of its symbol and position side
CancelledFirst(log, k) ==
    \E j \in 1..(k - 1) :
        /\ log[j].api = "orders-algo-pending"
        /\ log[j].inst = log[k].inst
        /\ log[j].posSide = log[k].posSide

\* after the k-th call of the log the exchange ex holds at most one stop-loss
\* order for the call's symbol and position side
AtMostOneStopLoss(ex, log, k) ==
    Cardinality(StopLossOrders(ex, log[k].inst, log[k].posSide)) <= 1

ScenarioEvent ==
    /\ op'.name = "position"
    /\ op'.arg = Pos("S", "long", op'.arg.volume, Z(100), Z(10), Z(90), op'.arg.pnlRatio)
    /\ Has(sltp_cfg, "S")
    /\ sltp_cfg["S"].stoploss = R(-1, 2)

\* C8 (as stated): on the position-event path the scenario's stop-loss order
\* has trigger price 100 * (1 + (-0.5 + 0.1)/10) = 96.
C8_PositionPathPrice96 ==
    [][ScenarioEvent => \A k \in StopLossCalls(calls') : calls'[k].px = Z(96)]_vars

\* C8 (amended): on the position-event path the refresh runs with offset 0,
\* so the scenario's stop-loss order has trigger price
\* 100 * (1 + (-0.5 + 0)/10) = 95.
C8_PositionPathPrice95 ==
    [][ScenarioEvent => \A k \in StopLossCalls(calls') : calls'[k].px = Z(95)]_vars

\* a position event of the scenario submitted its stop-loss order
C8_ScenarioSubmitted ==
    /\ op.name = "position"
    /\ Has(sltp_cfg, "S")
    /\ sltp_cfg["S"].stoploss = R(-1, 2)
    /\ StopLossCalls(calls) # {}

(***************************************************************************)
(* The setters of one symbol: position events install the defaults, set_sl *)
(* and set_tp change them and refresh.                                     *)
(***************************************************************************)
SetTakeProfits == {Z(2)}

PositionSet ==
    \E position \in ProtPositions : process_position_event(position, NoFault)

SetTpSet ==
    \E sym \in ProtSymbols, tp \in SetTakeProfits :
        \E g \in Oracles(CallsOf(set_trigger_cover_positions(
                              Start, NoFault, positions, RefreshArgs(sym))),
                          MaxFaults) :
            set_tp(sym, tp, g)

NextSet == PositionSet \/ SetSlProt \/ SetTpSet

SpecSet == Init /\ [][NextSet]_vars

(***************************************************************************)
(* The configuration of two symbols: position events install the defaults, *)
(* set_sl, set_tp and adjust_tp change them.                               *)
(***************************************************************************)
CfgPositions ==
    { Pos(sym, "long", Z(1), Z(100), Z(10), Z(90), Z(0)) : sym \in Symbols }
CfgStopLosses == {R(-2, 5)}
CfgTakeProfits == {Z(2)}
\* a multiplier the assertion accepts and two it refuses
CfgMultipliers == {R(3, 2), Z(0), Z(-1)}

PositionCfg ==
    \E position \in CfgPositions : process_position_event(position, NoFault)

SetSlCfg ==
    \E sym \in Symbols, sl \in CfgStopLosses : set_sl(sym, sl, NoFault)

SetTpCfg ==
    \E sym \in Symbols, tp \in CfgTakeProfits : set_tp(sym, tp, NoFault)

AdjustTpCfg ==
    \E sym \in Symbols \cup {NoSymbol}, mul \in CfgMultipliers : adjust_tp(sym, mul)

NextCfg == PositionCfg \/ SetSlCfg \/ SetTpCfg \/ AdjustTpCfg

SpecCfg == Init /\ [][NextCfg]_vars

(***************************************************************************)
(* Claims about the configuration.                                         *)
(***************************************************************************)
\* C9: for a configured symbol, after set_sl(symbol, v) the symbol's stoploss
\* is v and after set_tp(symbol, v) its takeprofit is v, whether the refresh
\* that follows succeeds, is rejected or raises.
C9_SetThenGet ==
    [][/\ (op'.name = "set_sl" /\ Has(sltp_cfg, op'.sym))
            => sltp_cfg'[op'.sym].stoploss = op'.arg
       /\ (op'.name = "set_tp" /\ Has(sltp_cfg, op'.sym))
            => sltp_cfg'[op'.sym].takeprofit = op'.arg]_vars

\* a set_sl of a configured symbol whose refresh raised after a gateway call
C9_SetWithFailedRefresh ==
    /\ op.name = "set_sl"
    /\ outcome = "raised"
    /\ Has(sltp_cfg, op.sym)
    /\ calls # <<>>

\* the symbols adjust_tp is called for
AdjustTargets(sym) == IF sym = NoSymbol THEN DOMAIN sltp_cfg ELSE {sym} \cap DOMAIN sltp_cfg

\* C10: adjust_tp with a multiplier m > 0 sets takeprofit = |stoploss| * m,
\* for one configured symbol and, called for all symbols, for every
\* configured symbol.
C10_AdjustUsesAbsoluteStopLoss ==
    [][(op'.name = "adjust_tp" /\ RLt(Z(0), op'.arg)) =>
          \A sym \in AdjustTargets(op'.sym) :
              sltp_cfg'[sym].takeprofit = RMul(RAbs(sltp_cfg[sym].stoploss), op'.arg)]_vars

(***************************************************************************)
(* The stop-loss price of the refresh: long and short positions of one     *)
(* symbol, refreshed with an offset of the caller's choice.                *)
(***************************************************************************)
\* entry 100, leverage 10; a long position whose liquidation price is below,
\* at and above the unclamped trigger price 96.5 of the default stop-loss,
\* and a short position whose liquidation price is above and at 103.5
SLPositions ==
    { Pos("S", "long", Z(1), Z(100), Z(10), Z(90), Z(0)),
      Pos("S", "long", Z(1), Z(100), Z(10), R(193, 2), Z(0)),
      Pos("S", "long", Z(1), Z(100), Z(10), Z(98), Z(2)),
      Pos("S", "short", Z(1), Z(100), Z(10), Z(110), Z(0)),
      Pos("S", "short", Z(1), Z(100), Z(10), R(207, 2), Z(2)) }
SLOffsets == {Z(0), R(1, 10)}

PositionSL ==
    \E position \in SLPositions : process_position_event(position, NoFault)

RefreshSL ==
    \E offset \in SLOffsets, use_max_tp \in BOOLEAN :
        refresh([cancel_all |-> TRUE, offset |-> offset, use_tick_price |-> FALSE,
                 use_max_tp |-> use_max_tp, vt_symbol |-> NoSymbol], NoFault)

SetSlSL ==
    \E sym \in ProtSymbols, sl \in ProtStopLosses : set_sl(sym, sl, NoFault)

NextSL == PositionSL \/ RefreshSL \/ SetSlSL

SpecSL == Init /\ [][NextSL]_vars

(***************************************************************************)
(* Claims about the stop-loss price.                                       *)
(***************************************************************************)
\* the price the claim states, for entry price P, leverage L, stop-loss
\* ratio sl, offset o and liquidation price liq
ClaimedLong(P, L, sl, o, liq) ==
    LET px == RMul(P, RAdd(Z(1), RDiv(RAdd(sl, o), L)))
    IN  IF RLe(px, liq) THEN RMul(liq, RAdd(Z(1), RDiv(self_offset, L))) ELSE px

ClaimedShort(P, L, sl, o, liq) ==
    LET px == RMul(P, RSub(Z(1), RDiv(RSub(sl, o), L)))
    IN  IF RLe(liq, px) THEN RMul(liq, RSub(Z(1), RDiv(self_offset, L))) ELSE px

\* the stored position a submission closes
PositionOf(pos, c) ==
    CHOOSE i \in 1..Len(pos) :
        pos[i].vt_symbol = c.inst /\ pos[i].direction = c.posSide

ClaimedFor(p, sl, o) ==
    IF p.direction = "long" THEN ClaimedLong(p.price, p.lever, sl, o, p.liqPrice)
    ELSE ClaimedShort(p.price, p.lever, sl, o, p.liqPrice)

\* C7: a refresh in entry-price mode (no tick price, no max-take-profit
\* override) submits for a long position the trigger price
\* P * (1 + (sl + o)/L), replaced by liqPrice * (1 + self.offset/L) when it is
\* <= liqPrice, and for a short position P * (1 - (sl - o)/L), replaced by
\* liqPrice * (1 - self.offset/L) when it is >= liqPrice.
C7_EntryPriceStopLoss ==
    [][(op'.name = "refresh" /\ ~op'.arg.use_tick_price /\ ~op'.arg.use_max_tp) =>
          \A k \in StopLossCalls(calls') :
              calls'[k].px =
                  ClaimedFor(positions[PositionOf(positions, calls'[k])],
                             sltp_cfg'[calls'[k].inst].stoploss,
                             op'.arg.offset)]_vars

\* a refresh in entry-price mode that submitted a clamped long stop-loss and a
\* short stop-loss with offset 0.1
C7_ClampedAndOffset ==
    /\ op.name = "refresh"
    /\ ~op.arg.use_max_tp
    /\ op.arg.offset = R(1, 10)
    /\ \E k \in StopLossCalls(calls) :
           calls[k].posSide = "long" /\ calls[k].px = RMul(Z(98), R(101, 100))
    /\ \E k \in StopLossCalls(calls) : calls[k].posSide = "short"

(***************************************************************************)
(* Claims about the validation and the frame of configuration changes.     *)
(***************************************************************************)
\* C11: adjust_tp with a multiplier <= 0, for one symbol or for all, fails at
\* the call (AssertionError) and changes no stoploss and no takeprofit.
C11_BadMultiplierChangesNothing ==
    [][(op'.name = "adjust_tp" /\ ~RLt(Z(0), op'.arg)) =>
          outcome' = "raised" /\ sltp_cfg' = sltp_cfg]_vars

\* an adjust_tp with multiplier 0 refused while two symbols are configured
C11_ZeroMultiplierRefused ==
    /\ op.name = "adjust_tp"
    /\ op.arg = Z(0)
    /\ outcome = "raised"
    /\ DOMAIN sltp_cfg = Symbols

\* the operations addressed to one symbol
AddressedToOne ==
    \/ op'.name \in {"set_sl", "set_tp", "position"}
    \/ op'.name = "adjust_tp" /\ op'.sym # NoSymbol

\* C12: a change addressed to one symbol (set_sl, set_tp, adjust_tp of that
\* symbol, the defaults installed for it by its position event) leaves the
\* entry of every other symbol as it was and creates no entry for another
\* symbol.
C12_OtherSymbolsUnchanged ==
    [][AddressedToOne =>
          /\ DOMAIN sltp_cfg' \subseteq DOMAIN sltp_cfg \cup {op'.sym}
          /\ \A other \in DOMAIN sltp_cfg \ {op'.sym} :
                 other \in DOMAIN sltp_cfg' /\ sltp_cfg'[other] = sltp_cfg[other]]_vars

\* a set_sl that changed its symbol's stoploss while the other symbol keeps
\* the default
C12_OneChangedOtherKept ==
    /\ op.name = "set_sl"
    /\ outcome = "ok"
    /\ DOMAIN sltp_cfg = Symbols
    /\ \E other \in Symbols \ {op.sym} :
           sltp_cfg[other].stoploss = default_sl /\ sltp_cfg[op.sym].stoploss # default_sl

(***************************************************************************)
(* Pause and resume: position events, ticks and watches of one symbol.     *)
(***************************************************************************)
PauseOp == pause

ResumeOp == resume

PositionPause ==
    \E position \in ProtPositions : process_position_event(position, NoFault)

TickPause ==
    \E sym \in ProtSymbols, price \in TickPrices :
        \E g \in Oracles(Len(QueueOf(trigger_trigger_orders, sym)), MaxTickFaults) :
            process_tick_event([vt_symbol |-> sym, last_price |-> price], g)

CreatePause ==
    \E sym \in ProtSymbols, i \in TTOInputs :
        set_trigger_trigger_order(sym, i.side, i.trigPx1, i.trigPx2, i.volume,
                                  i.orderPx, FALSE)

NextPause == PauseOp \/ ResumeOp \/ PositionPause \/ TickPause \/ CreatePause

SpecPause == Init /\ [][NextPause]_vars

\* the variables of the engine and the exchange (not the record of the last
\* operation)
engine_vars ==
    <<last_tick, trigger_trigger_orders, sltp_cfg, last_position, _pause,
      tp_with_trigger, cancel_tp, positions, subscribed, algo_orders>>

\* C13: while the engine is paused a position event sends nothing to the
\* gateway and leaves the exchange and the configuration as they are; a tick
\* that crosses the first trigger of the watch at the head of the symbol's
\* queue still submits its second leg; pause leaves the engine paused, resume
\* leaves it running, and repeating either changes nothing.
C13_PauseStopsProtectionOnly ==
    [][/\ (_pause /\ op'.name = "position")
            => /\ calls' = <<>>
               /\ algo_orders' = algo_orders
               /\ sltp_cfg' = sltp_cfg
       /\ (_pause /\ op'.name = "tick")
            => LET q == QueueOf(trigger_trigger_orders, op'.sym)
               IN  (q # <<>> /\ TickCrosses(q[1], op'.arg.last_price))
                   => SubmissionsFor(calls', q[1].id) # {}
       /\ op'.name = "pause"
            => _pause' /\ (_pause => engine_vars' = engine_vars)
       /\ op'.name = "resume"
            => ~_pause' /\ (~_pause => engine_vars' = engine_vars)]_vars

\* a paused engine with a stored open position, no order sent for it, whose
\* last tick fired a watch
C13_PausedTickFired ==
    /\ _pause
    /\ positions # <<>>
    /\ algo_orders # <<>>
    /\ \A k \in 1..Len(algo_orders) : algo_orders[k].why = "tto"
    /\ op.name = "tick"
    /\ calls # <<>>

(***************************************************************************)
(* Claims about failures of the gateway.                                   *)
(***************************************************************************)
\* a position event of an open position that has no stop-loss order pending
UnprotectedEvent ==
    /\ op'.name = "position"
    /\ ~_pause
    /\ RLt(Z(0), op'.arg.volume)
    /\ StopLossOrders(algo_orders, op'.sym, op'.arg.direction) = {}

\* C14: a position event for an open position that has no stop-loss order
\* pending (its submission failed) runs the protective computation again and
\* submits a stop-loss order.
C14_NextEventResubmits ==
    [][UnprotectedEvent => StopLossCalls(calls') # {}]_vars

(***************************************************************************)
(* The setters of all symbols: positions of two symbols, set_sl of one,    *)
(* set_all_sl and set_all_tp.                                              *)
(***************************************************************************)
\* the gateway calls of a run that submit an order
SubmitIndices(m) == {k \in 1..Len(m.calls) : m.calls[k].api = "order-algo"}

\* the faults of a refresh of every position: one failing call anywhere, or
\* up to MaxFaults failing submissions
AllFaults(m) ==
    Oracles(CallsOf(m), 1) \cup
    UNION { [S -> {"rej", "exc"}] :
            S \in { T \in SUBSET SubmitIndices(m) : Cardinality(T) <= MaxFaults } }

SetAllSl ==
    \E sl \in CfgStopLosses :
        \E g \in AllFaults(set_trigger_cover_positions(
                              Start, NoFault, positions, RefreshArgs(NoSymbol))) :
            set_all_sl(sl, g)

SetAllTp ==
    \E tp \in CfgTakeProfits : set_all_tp(tp, NoFault)

NextAll == PositionCfg \/ SetSlCfg \/ SetAllSl \/ SetAllTp

SpecAll == Init /\ [][NextAll]_vars

\* the stored open positions that the log holds no stop-loss submission for
NotRefreshed(pos, log) ==
    {i \in 1..Len(pos) :
        /\ RLt(Z(0), pos[i].volume)
        /\ \A k \in StopLossCalls(log) : log[k].inst # pos[i].vt_symbol}

\* C15: a refresh of all symbols (set_all_sl, set_all_tp) submits a stop-loss
\* order for every open position, whichever gateway call of another symbol
\* fails.
C15_FailureDoesNotStopOthers ==
    [][op'.name \in {"set_all_sl", "set_all_tp"}
          => NotRefreshed(positions, calls') = {}]_vars

\* C18: a set_sl or set_tp of a configured symbol that returns has refreshed
\* the open positions of that symbol and called the gateway for no other
\* symbol; a set_all_sl or set_all_tp has assigned the value to every
\* configured symbol and, when it returns, has refreshed every open position.
C18_SetRefreshesBeforeReturn ==
    [][/\ (op'.name \in {"set_sl", "set_tp"} /\ outcome' = "ok")
            => /\ \A k \in 1..Len(calls') : calls'[k].inst = op'.sym
               /\ \A i \in NotRefreshed(positions, calls') :
                      positions[i].vt_symbol # op'.sym
       /\ op'.name = "set_all_sl"
            => \A sym \in DOMAIN sltp_cfg : sltp_cfg'[sym].stoploss = op'.arg
       /\ op'.name = "set_all_tp"
            => \A sym \in DOMAIN sltp_cfg : sltp_cfg'[sym].takeprofit = op'.arg
       /\ (op'.name \in {"set_all_sl", "set_all_tp"} /\ outcome' = "ok")
            => NotRefreshed(positions, calls') = {}]_vars

\* a set_all_sl that returned after refreshing the positions of two symbols,
\* one of them with a rejected call
C18_SetAllRefreshedTwo ==
    /\ op.name = "set_all_sl"
    /\ outcome = "ok"
    /\ Len(positions) = 2
    /\ ~AllAccepted(calls)
    /\ {calls[k].inst : k \in StopLossCalls(calls)} = Symbols

(***************************************************************************)
(* Two threads refreshing the protective order of one symbol.  The engine  *)
(* is called from the event engine's dispatcher (process_position_event)   *)
(* and from the strategy thread (set_sl, set_tp, lock_pos); the refresh    *)
(* takes no lock and makes three REST calls: list the pending orders,      *)
(* cancel the listed ones, submit the new one.  Each call is one step.     *)
(***************************************************************************)
MaxRaceOrders == 4

\* every variable but race
not_race ==
    <<last_tick, trigger_trigger_orders, sltp_cfg, last_position, _pause,
      tp_with_trigger, cancel_tp, positions, subscribed, algo_orders, tto_seq,
      tto_accepted, calls, op, outcome, scan, strategy>>

\* a thread enters set_trigger_cover_positions(cancel_all=True)
RefreshBegin(t) ==
    /\ race.pc[t] = "idle"
    /\ race.next <= MaxRaceOrders
    /\ race' = [race EXCEPT !.pc[t] = "query"]
    /\ UNCHANGED not_race

\* cancel_all_trigger_orders: get_trigger_orders; nothing pending returns
RefreshQuery(t) ==
    /\ race.pc[t] = "query"
    /\ race' = [race EXCEPT !.snap[t] = race.ex,
                            !.pc[t] = IF race.ex = {} THEN "submit" ELSE "cancel"]
    /\ UNCHANGED not_race

\* cancel_all_trigger_orders: cancel_trigger_orders on the orders listed
RefreshCancel(t) ==
    /\ race.pc[t] = "cancel"
    /\ race' = [race EXCEPT !.ex = @ \ race.snap[t], !.pc[t] = "submit"]
    /\ UNCHANGED not_race

\* send_trigger_order: the exchange accepts the new stop-loss order
RefreshSubmit(t) ==
    /\ race.pc[t] = "submit"
    /\ race' = [race EXCEPT !.ex = @ \cup {race.next}, !.next = @ + 1,
                            !.snap[t] = {}, !.pc[t] = "idle"]
    /\ UNCHANGED not_race

NextRace ==
    \E t \in Threads :
        RefreshBegin(t) \/ RefreshQuery(t) \/ RefreshCancel(t) \/ RefreshSubmit(t)

SpecRace == Init /\ [][NextRace]_vars

\* C16: the calls of two refreshes of one symbol never interleave, so that
\* once every refresh has returned the exchange holds at most one protective
\* order for the symbol
C16_RefreshesSerialised ==
    (\A t \in Threads : race.pc[t] = "idle") => Cardinality(race.ex) <= 1

(***************************************************************************)
(* A tick's scan interleaved with the strategy thread.  The scan of        *)
(* check_trigger_trigger_order holds an iterator of the dict and the list  *)
(* object `ttos` of the tick's symbol while it waits for the gateway; the  *)
(* strategy thread's set_trigger_trigger_order and cleanup_ttos take no    *)
(* lock.  scan.live says that `ttos` is still the list stored in the dict, *)
(* scan.dict_live that the iterated dict is still self.trigger_trigger_-   *)
(* orders; a list that was replaced lives on in scan.list.                 *)
(***************************************************************************)
not_scan ==
    <<sltp_cfg, last_position, _pause, tp_with_trigger, cancel_tp, positions,
      subscribed, algo_orders, tto_accepted, calls, op, outcome, race,
      strategy>>

\* the list object the scan iterates
ScanList == IF scan.live THEN trigger_trigger_orders[scan.sym] ELSE scan.list

\* the scan is over: only its error and what it fired are kept
ScanDone(err) == [ScanIdle EXCEPT !.err = err, !.orphan = scan.orphan]

\* process_tick_event caches the tick and enters the loops; the indices
\* range(0, len(ttos)) and the iterator's size are fixed here
ScanStart(tick) ==
    /\ scan.pc = "idle"
    /\ last_tick' = Put(last_tick, tick.vt_symbol, tick)
    /\ scan' = IF ~Has(trigger_trigger_orders, tick.vt_symbol) THEN ScanIdle
               ELSE [ScanIdle EXCEPT
                        !.pc = "check", !.sym = tick.vt_symbol,
                        !.price = tick.last_price, !.live = TRUE,
                        !.dict_live = TRUE,
                        !.size = Cardinality(DOMAIN trigger_trigger_orders),
                        !.i = 1,
                        !.n = Len(trigger_trigger_orders[tick.vt_symbol])]
    /\ UNCHANGED <<trigger_trigger_orders, tto_seq>>
    /\ UNCHANGED not_scan

\* tto = ttos[i] and the comparison with the first trigger; a crossed watch
\* is sent to the gateway (scan.orphan: it was taken from a list that is no
\* longer the symbol's queue)
ScanCheck ==
    /\ scan.pc = "check"
    /\ scan' = IF scan.i > scan.n THEN [scan EXCEPT !.pc = "next"]
               ELSE IF scan.i > Len(ScanList) THEN ScanDone("IndexError")
               ELSE IF Crossed(ScanList[scan.i], scan.price)
                    THEN [scan EXCEPT !.pc = "send",
                                      !.orphan = @ \/ ~scan.live]
                    ELSE [scan EXCEPT !.i = @ + 1]
    /\ UNCHANGED <<last_tick, trigger_trigger_orders, tto_seq>>
    /\ UNCHANGED not_scan

\* send_trigger_order has returned: code '0' pops index i of `ttos`, another
\* code logs, no response raises TypeError
ScanSend(res) ==
    /\ scan.pc = "send"
    /\ CASE res = "ok" ->
                    /\ scan' = [scan EXCEPT
                                   !.pc = "check", !.i = @ + 1,
                                   !.list = IF scan.live THEN @
                                            ELSE RemoveAt(@, scan.i)]
                    /\ trigger_trigger_orders' =
                           IF scan.live
                           THEN [trigger_trigger_orders EXCEPT
                                    ![scan.sym] = RemoveAt(@, scan.i)]
                           ELSE trigger_trigger_orders
             [] res = "rej" ->
                    /\ scan' = [scan EXCEPT !.pc = "check", !.i = @ + 1]
                    /\ UNCHANGED trigger_trigger_orders
             [] OTHER ->
                    /\ scan' = ScanDone("TypeError")
                    /\ UNCHANGED trigger_trigger_orders
    /\ UNCHANGED <<last_tick, tto_seq>>
    /\ UNCHANGED not_scan

\* the outer loop asks the dict's iterator for the next item: a dict whose
\* size changed since the loop began raises RuntimeError
ScanNext ==
    /\ scan.pc = "next"
    /\ scan' = IF scan.dict_live
                  /\ Cardinality(DOMAIN trigger_trigger_orders) # scan.size
               THEN ScanDone("RuntimeError")
               ELSE ScanDone("")
    /\ UNCHANGED <<last_tick, trigger_trigger_orders, tto_seq>>
    /\ UNCHANGED not_scan

\* set_trigger_trigger_order on the strategy thread while no scan runs
CreateIdle ==
    /\ scan.pc = "idle"
    /\ CreateTTO

\* set_trigger_trigger_order on the strategy thread during a scan: an append
\* is made to the list the scan holds, clean_others stores a new list in the
\* dict and leaves the scan with the old one
CreateDuringScan(sym, w, clean_others) ==
    LET tto_data == [vt_symbol |-> sym, side |-> w.side, trigPx1 |-> w.trigPx1,
                     trigPx2 |-> w.trigPx2, volume |-> w.volume,
                     orderPx |-> w.orderPx, id |-> tto_seq + 1]
        raises == CreateRaises(sym, w.side)
        rejected == ~raises /\ w.side \in {"buy", "sell"}
                    /\ CreateRejected(w.side, w.trigPx1, last_tick[sym].last_price)
    IN  /\ scan.pc # "idle"
        /\ tto_seq < MaxTTO
        /\ op' = [name |-> "create", sym |-> sym,
                  arg |-> [tto_data EXCEPT !.id = 0], flag |-> clean_others]
        /\ calls' = <<>>
        /\ IF raises \/ rejected
           THEN /\ outcome' = IF raises THEN "raised" ELSE "rejected"
                /\ UNCHANGED <<trigger_trigger_orders, tto_seq, scan>>
           ELSE /\ outcome' = "ok"
                /\ trigger_trigger_orders' =
                       Put(trigger_trigger_orders, sym,
                           CreateQueue(trigger_trigger_orders, sym, tto_data,
                                       clean_others))
                /\ tto_seq' = tto_seq + 1
                /\ scan' = IF sym = scan.sym /\ scan.live /\ clean_others
                           THEN [scan EXCEPT
                                    !.list = trigger_trigger_orders[sym],
                                    !.live = FALSE]
                           ELSE scan
        /\ UNCHANGED <<last_tick, sltp_cfg, last_position, _pause, tp_with_trigger,
                       cancel_tp, positions, subscribed, algo_orders, tto_accepted,
                       race, strategy>>

\* cleanup_ttos on the strategy thread: self.trigger_trigger_orders is bound
\* to a new dict; a scan in progress keeps the old dict's list
CleanupDuringScan ==
    /\ op' = [name |-> "cleanup_ttos", sym |-> "", arg |-> NoArg, flag |-> FALSE]
    /\ trigger_trigger_orders' = EmptyDict
    /\ calls' = <<>>
    /\ outcome' = "ok"
    /\ scan' = IF scan.pc = "idle" THEN scan
               ELSE [scan EXCEPT !.list = ScanList, !.live = FALSE,
                                 !.dict_live = FALSE]
    /\ UNCHANGED <<last_tick, sltp_cfg, last_position, _pause, tp_with_trigger,
                   cancel_tp, positions, subscribed, algo_orders, tto_seq,
                   tto_accepted, race, strategy>>

ScanResults == {"ok", "rej", "exc"}

NextScan ==
    \/ \E sym \in Symbols, price \in TickPrices :
           ScanStart([vt_symbol |-> sym, last_price |-> price])
    \/ ScanCheck
    \/ \E res \in ScanResults : ScanSend(res)
    \/ ScanNext
    \/ CreateIdle
    \/ \E sym \in Symbols, w \in TTOInputs, clean_others \in BOOLEAN :
           CreateDuringScan(sym, w, clean_others)
    \/ CleanupDuringScan

SpecScan == Init /\ [][NextScan]_vars

\* C17: a create or a clearAll of the strategy thread never takes effect
\* inside a tick's scan, so the scan never fails because the dict changed
\* size under its iterator and never fires a watch of a queue that has been
\* replaced or cleared since the scan began
C17_ScanUndisturbed ==
    scan.err # "RuntimeError" /\ ~scan.orphan

(***************************************************************************)
(* Manual position locking: ticks, position events and lock_pos.           *)
(***************************************************************************)
LockPositions ==
    { Pos("S", "long", Z(1), Z(100), Z(10), Z(90), Z(0)),
      Pos("S", "short", Z(1), Z(100), Z(10), Z(110), Z(0)) }
LockTickPrices == {Z(100), Z(90), Z(110)}
LockOffsets == {<<>>, <<R(1, 20)>>}
LockSymbols == {"S", NoSymbol}

TickLock ==
    \E price \in LockTickPrices :
        process_tick_event([vt_symbol |-> "S", last_price |-> price], NoFault)

PositionLock ==
    \E position \in LockPositions : process_position_event(position, NoFault)

SetSlLock ==
    \E sl \in ProtStopLosses : set_sl("S", sl, NoFault)

LockPosLock ==
    \E sym \in LockSymbols, offset \in LockOffsets : lock_pos(offset, sym, NoFault)

NextLock == TickLock \/ PositionLock \/ SetSlLock \/ LockPosLock

SpecLock == Init /\ [][NextLock]_vars

\* the tick-mode price of a position: the last price moved against the
\* position by o/L, with the liquidation clamp
TickModePrice(p, last, o) ==
    IF p.direction = "long"
    THEN LET px == RSub(last, RDiv(RMul(last, o), p.lever))
         IN  IF RLe(px, p.liqPrice)
             THEN RAdd(p.liqPrice, RDiv(RMul(p.liqPrice, self_offset), p.lever))
             ELSE px
    ELSE LET px == RAdd(last, RDiv(RMul(last, o), p.lever))
         IN  IF RLe(p.liqPrice, px)
             THEN RSub(p.liqPrice, RDiv(RMul(p.liqPrice, self_offset), p.lever))
             ELSE px

\* C19 as stated: lock_pos submits the entry-price formula with the last tick
\* price in the place of the entry price, for long last * (1 + (sl + o)/L), for
\* short last * (1 - (sl - o)/L), with the liquidation clamp.
C19_TickPriceInEntryFormula ==
    [][op'.name = "lock_pos" =>
          \A k \in StopLossCalls(calls') :
              LET p == positions[PositionOf(positions, calls'[k])]
              IN  calls'[k].px =
                      ClaimedFor([p EXCEPT !.price = last_tick[p.vt_symbol].last_price],
                                 sltp_cfg'[p.vt_symbol].stoploss, op'.arg)]_vars

\* C19: lock_pos submits for a long position last * (1 - o/L), replaced by
\* liqPrice * (1 + self.offset/L) when it is <= liqPrice, and for a short
\* position last * (1 + o/L), replaced by liqPrice * (1 - self.offset/L) when
\* it is >= liqPrice; the stop-loss ratio of the symbol does not enter.
C19_TickPriceStopLoss ==
    [][op'.name = "lock_pos" =>
          \A k \in StopLossCalls(calls') :
              LET p == positions[PositionOf(positions, calls'[k])]
              IN  calls'[k].px =
                      TickModePrice(p, last_tick[p.vt_symbol].last_price,
                                    op'.arg)]_vars

\* lock_pos with the engine's offset at last price 100 has submitted 99 for
\* the long position and 101 for the short position
C19_LockedBothSides ==
    /\ op.name = "lock_pos"
    /\ op.arg = self_offset
    /\ outcome = "ok"
    /\ \E k \in StopLossCalls(calls) :
           calls[k].posSide = "long" /\ calls[k].px = Z(99)
    /\ \E k \in StopLossCalls(calls) :
           calls[k].posSide = "short" /\ calls[k].px = Z(101)

(***************************************************************************)
(* The two take-profit modes: ticks, position events, and the script       *)
(* assigning the public attribute tp_with_trigger.                         *)
(***************************************************************************)
ModePositions ==
    { Pos("S", "long", Z(1), Z(100), Z(10), Z(90), Z(0)),
      Pos("S", "long", Z(1), Z(100), Z(10), Z(90), Z(2)),
      Pos("S", "long", Z(2), Z(100), Z(10), Z(90), Z(2)),
      Pos("S", "short", Z(1), Z(100), Z(10), Z(110), Z(2)),
      Pos("S", "long", Z(0), Z(100), Z(10), Z(90), Z(2)) }
ModeTickPrices == {Z(100), Z(120)}

TickModes ==
    \E price \in ModeTickPrices :
        process_tick_event([vt_symbol |-> "S", last_price |-> price], NoFault)

PositionModes ==
    \E position \in ModePositions : process_position_event(position, NoFault)

\* engine.tp_with_trigger = b
SetTakeProfitMode(b) ==
    /\ op' = [name |-> "tp_with_trigger", sym |-> "", arg |-> NoArg, flag |-> b]
    /\ tp_with_trigger' = b
    /\ calls' = <<>>
    /\ outcome' = "ok"
    /\ UNCHANGED <<last_tick, trigger_trigger_orders, sltp_cfg, last_position,
                   _pause, cancel_tp, positions, subscribed, algo_orders,
                   tto_seq, tto_accepted, race, scan, strategy>>

NextModes == TickModes \/ PositionModes \/ (\E b \in BOOLEAN : SetTakeProfitMode(b))

SpecModes == Init /\ [][NextModes]_vars

MarketCloses(log) == {k \in 1..Len(log) : log[k].api = "order"}
TakeProfitOrders(log) ==
    {k \in 1..Len(log) : log[k].api = "order-algo" /\ log[k].why = "tp"}

\* a position event with volume > 0 whose pnl ratio exceeds the symbol's
\* take-profit threshold
TakeProfitEvent ==
    /\ op'.name = "position"
    /\ RLt(Z(0), op'.arg.volume)
    /\ Has(sltp_cfg', op'.sym)
    /\ RLt(sltp_cfg'[op'.sym].takeprofit, op'.arg.pnlRatio)

\* C20: a position event with volume > 0 and pnl ratio above the take-profit
\* threshold issues a market close in immediate mode; in trigger mode it
\* issues no market close and submits a take-profit trigger order.
C20_TakeProfitModes ==
    [][TakeProfitEvent =>
          IF tp_with_trigger
          THEN MarketCloses(calls') = {} /\ TakeProfitOrders(calls') # {}
          ELSE MarketCloses(calls') # {}]_vars

(***************************************************************************)
(* Trigger-based take-profit: ticks, position events in profit, set_tp and *)
(* the script assigning the public attribute cancel_tp.                    *)
(***************************************************************************)
TPPositions ==
    { Pos("S", "long", Z(1), Z(100), Z(10), Z(90), R(3, 4)),
      Pos("S", "long", Z(1), Z(100), Z(10), Z(90), Z(2)),
      Pos("S", "short", Z(1), Z(100), Z(10), Z(110), R(3, 4)),
      Pos("S", "short", Z(1), Z(100), Z(10), Z(110), Z(2)) }
TPTickPrices == {Z(100)}
TPTakeProfits == {R(1, 2)}

TickTP ==
    \E price \in TPTickPrices :
        process_tick_event([vt_symbol |-> "S", last_price |-> price], NoFault)

PositionTP ==
    \E position \in TPPositions : process_position_event(position, NoFault)

SetTpTP ==
    \E tp \in TPTakeProfits : set_tp("S", tp, NoFault)

NextTP == TickTP \/ PositionTP \/ SetTpTP

SpecTP == Init /\ [][NextTP]_vars

\* the pnl ratio a close at price px realises for the position: the move
\* from the entry price, relative to it, times the leverage
LockedRatio(p, px) ==
    IF p.direction = "long"
    THEN RMul(RDiv(RSub(px, p.price), p.price), p.lever)
    ELSE RMul(RDiv(RSub(p.price, px), p.price), p.lever)

\* the price anchored to the tick: the last price moved against the position
\* by self.offset / L
TickAnchored(p, last) ==
    IF p.direction = "long"
    THEN RSub(last, RDiv(RMul(last, self_offset), p.lever))
    ELSE RAdd(last, RDiv(RMul(last, self_offset), p.lever))

\* C21: the take-profit trigger order of a position event is anchored to the
\* tick price while the pnl ratio is at most maxTakeProfit; above it the price
\* is anchored to the entry price and locks in a pnl ratio of at least
\* maxTakeProfit, for long and for short positions.
C21_TakeProfitPrice ==
    [][op'.name = "position" =>
          \A k \in TakeProfitOrders(calls') :
              IF RLt(max_tp, op'.arg.pnlRatio)
              THEN RLe(max_tp, LockedRatio(op'.arg, calls'[k].px))
              ELSE calls'[k].px =
                       TickAnchored(op'.arg, last_tick[op'.sym].last_price)]_vars

(***************************************************************************)
(* Take-profit refreshes against a gateway that can fail, with the script  *)
(* assigning the public attribute cancel_tp.                               *)
(***************************************************************************)
PositionStack ==
    \E position \in TPPositions :
        \E g \in Oracles(CallsOf(PositionRun(position, NoFault)), MaxFaults) :
            process_position_event(position, g)

\* engine.cancel_tp = b
SetCancelTp(b) ==
    /\ op' = [name |-> "cancel_tp", sym |-> "", arg |-> NoArg, flag |-> b]
    /\ cancel_tp' = b
    /\ calls' = <<>>
    /\ outcome' = "ok"
    /\ UNCHANGED <<last_tick, trigger_trigger_orders, sltp_cfg, last_position,
                   _pause, tp_with_trigger, positions, subscribed, algo_orders,
                   tto_seq, tto_accepted, race, scan, strategy>>

NextStack == TickTP \/ PositionStack \/ (\E b \in BOOLEAN : SetCancelTp(b))

SpecStack == Init /\ [][NextStack]_vars

\* the gateway calls of the take-profit branch that are not the submission
TakeProfitCancels(log) ==
    {k \in 1..Len(log) : log[k].api # "order-algo" /\ log[k].why = "tp"}

\* the pending take-profit orders of a symbol and position side
PendingTakeProfits(ex, sym, posSide) ==
    {i \in 1..Len(ex) :
        ex[i].inst = sym /\ ex[i].posSide = posSide /\ ex[i].why = "tp"}

\* C22: with cancel_tp set a position event that submits a take-profit trigger
\* order has cancelled first and leaves at most one take-profit order pending
\* for the symbol and position side; with cancel_tp unset it sends no cancel
\* before the submission.
C22_TakeProfitDoesNotStack ==
    [][op'.name = "position" =>
          \A k \in TakeProfitOrders(calls') :
              IF cancel_tp
              THEN /\ \E j \in TakeProfitCancels(calls') : j < k
                   /\ Cardinality(PendingTakeProfits(algo_orders', op'.sym,
                                                     calls'[k].posSide)) <= 1
              ELSE TakeProfitCancels(calls') = {}]_vars

(***************************************************************************)
(* Claims about the life of a watch.                                       *)
(***************************************************************************)
NothingPending(tto) == \A sym \in Symbols : QueueOf(tto, sym) = <<>>

\* C23: after cleanup_ttos no watch is pending for any symbol, and while no
\* watch is pending a tick submits nothing and leaves the queues as they are.
C23_ClearedNothingFires ==
    [][/\ op'.name = "cleanup_ttos" => NothingPending(trigger_trigger_orders')
       /\ (op'.name = "tick" /\ NothingPending(trigger_trigger_orders))
            => /\ calls' = <<>>
               /\ NothingPending(trigger_trigger_orders')]_vars

\* a tick at price 3 after watches were created, none of them fired, and
\* cleanup_ttos dropped them: nothing is submitted
C23_TickAfterClear ==
    /\ op.name = "tick"
    /\ op.arg.last_price = Z(3)
    /\ tto_seq > 0
    /\ \A i \in DOMAIN tto_accepted : tto_accepted[i] = 0
    /\ trigger_trigger_orders = EmptyDict
    /\ calls = <<>>

\* C24: a tick fires a pending buy watch of its symbol exactly when its price
\* is below the watch's first trigger and a sell watch exactly when it is
\* above; the second leg is submitted with position side long for a buy watch
\* and short for a sell watch.
C24_FiresExactlyOnCrossing ==
    [][op'.name = "tick" =>
          LET q == QueueOf(trigger_trigger_orders, op'.sym)
          IN  \A i \in 1..Len(q) :
                  /\ SubmissionsFor(calls', q[i].id) # {}
                         <=> \/ q[i].side = "buy"
                                /\ RLt(op'.arg.last_price, q[i].trigPx1)
                             \/ q[i].side = "sell"
                                /\ RLt(q[i].trigPx1, op'.arg.last_price)
                  /\ \A k \in SubmissionsFor(calls', q[i].id) :
                         calls'[k].posSide =
                             IF q[i].side = "buy" THEN "long" ELSE "short"]_vars

\* the ids of all pending watches
AllIds(tto) == UNION {IdsOf(QueueOf(tto, sym)) : sym \in Symbols}

\* C25: a pending watch leaves its queue only by its own accepted firing, by
\* cleanup_ttos, or by an accepted create with clean_others on its symbol; a
\* tick changes no queue of another symbol and, when it crosses no watch of
\* its own symbol, no queue at all; a watch that has left never comes back.
C25_WatchLeavesOnlyWhenFired ==
    [][/\ \A id \in AllIds(trigger_trigger_orders) \ AllIds(trigger_trigger_orders') :
              \/ /\ op'.name = "tick"
                 /\ \E k \in SubmissionsFor(calls', id) : calls'[k].res = "ok"
              \/ op'.name = "cleanup_ttos"
              \/ /\ op'.name = "create" /\ op'.flag /\ outcome' = "ok"
                 /\ id \in IdsOf(QueueOf(trigger_trigger_orders, op'.sym))
       /\ op'.name = "tick" =>
              /\ \A sym \in Symbols \ {op'.sym} :
                     QueueOf(trigger_trigger_orders', sym)
                         = QueueOf(trigger_trigger_orders, sym)
              /\ CrossedRefs(QueueOf(trigger_trigger_orders, op'.sym),
                             op'.arg.last_price) = <<>>
                     => trigger_trigger_orders' = trigger_trigger_orders
       /\ AllIds(trigger_trigger_orders') \ AllIds(trigger_trigger_orders)
              \subseteq {tto_seq + 1}]_vars

\* a tick has fired watch 1 and was refused watch 2, which is still pending
C25_FiredOneKeptOther ==
    /\ op.name = "tick"
    /\ tto_accepted[1] = 1
    /\ \E k \in SubmissionsFor(calls, 2) : calls[k].res = "rej"
    /\ IdsOf(QueueOf(trigger_trigger_orders, op.sym)) = {2}

\* C26: an accepted create with clean_others leaves the symbol's queue
\* holding exactly the new watch; without it the new watch is appended at the
\* tail of the queue as it was; the queues of the other symbols are unchanged.
C26_CreateReplacesOrAppends ==
    [][(op'.name = "create" /\ outcome' = "ok") =>
          LET new == [op'.arg EXCEPT !.id = tto_seq + 1]
          IN  /\ Has(trigger_trigger_orders', op'.sym)
              /\ trigger_trigger_orders'[op'.sym] =
                     IF op'.flag THEN <<new>>
                     ELSE Append(QueueOf(trigger_trigger_orders, op'.sym), new)
              /\ \A sym \in Symbols \ {op'.sym} :
                     /\ Has(trigger_trigger_orders', sym)
                            <=> Has(trigger_trigger_orders, sym)
                     /\ QueueOf(trigger_trigger_orders', sym)
                            = QueueOf(trigger_trigger_orders, sym)]_vars

\* a create without clean_others has put watch 2 behind watch 1
C26_AppendedSecond ==
    /\ op.name = "create"
    /\ ~op.flag
    /\ outcome = "ok"
    /\ Len(QueueOf(trigger_trigger_orders, op.sym)) = 2
    /\ trigger_trigger_orders[op.sym][1].id = 1
    /\ trigger_trigger_orders[op.sym][2].id = 2

\* the pending trigger orders of a symbol and position side
PendingFor(ex, sym, posSide) ==
    {i \in 1..Len(ex) : ex[i].inst = sym /\ ex[i].posSide = posSide}

\* C27: a position event of volume zero submits no stop-loss or take-profit
\* trigger order for that position and no market close, and when it
\* refreshes, the pending trigger orders of the symbol and position side are
\* cancelled.
C27_ZeroVolumeNoCoverage ==
    [][(op'.name = "position" /\ op'.arg.volume = Z(0)) =>
          /\ MarketCloses(calls') = {}
          /\ \A k \in 1..Len(calls') :
                 calls'[k].api = "order-algo"
                     => calls'[k].posSide # op'.arg.direction
          /\ NeedsRefresh(op'.arg)
                 => PendingFor(algo_orders', op'.sym, op'.arg.direction) = {}]_vars

\* a position event of volume zero has cancelled the orders that were pending
\* for the position
C27_ZeroVolumeCancelled ==
    /\ op.name = "position"
    /\ op.arg.volume = Z(0)
    /\ outcome = "ok"
    /\ \E k \in 1..Len(calls) :
           /\ calls[k].api = "cancel-algos"
           /\ calls[k].posSide = op.arg.direction
           /\ calls[k].ids # NoIds
    /\ PendingFor(algo_orders, op.sym, op.arg.direction) = {}

\* the operations that assign a threshold
ConfigCommands == {"set_sl", "set_tp", "set_all_sl", "set_all_tp", "adjust_tp"}

\* C28: a position event that refreshes an open position of a symbol without
\* an entry in sltp_cfg leaves the entry [default_sl, default_tp] and the
\* symbol subscribed; every new entry is that default entry; an operation that
\* is not a set or adjust keeps the values of the entries there are; no
\* operation removes an entry.
C28_DefaultsInstalledOnce ==
    [][/\ DOMAIN sltp_cfg \subseteq DOMAIN sltp_cfg'
       /\ \A sym \in DOMAIN sltp_cfg' \ DOMAIN sltp_cfg :
              /\ sltp_cfg'[sym] = [stoploss |-> default_sl,
                                   takeprofit |-> default_tp]
              /\ sym \in subscribed'
       /\ (op'.name = "position" /\ op'.arg.volume # Z(0)
             /\ NeedsRefresh(op'.arg))
              => Has(sltp_cfg', op'.sym)
       /\ op'.name \notin ConfigCommands
              => \A sym \in DOMAIN sltp_cfg : sltp_cfg'[sym] = sltp_cfg[sym]]_vars

\* a position event of a new volume has refreshed a symbol whose stop-loss
\* had been set to -0.5, and the entry still holds it
C28_RefreshKeptConfigured ==
    /\ op.name = "position"
    /\ op.arg.volume = Z(2)
    /\ StopLossCalls(calls) # {}
    /\ sltp_cfg[op.sym] = [stoploss |-> R(-1, 2), takeprofit |-> default_tp]
    /\ op.sym \in subscribed

\* C29: a create of a buy or sell watch for a symbol with no cached tick is
\* skipped: it changes no queue and does not raise into the strategy script.
C29_MissingTickSkipsCreate ==
    [][(op'.name = "create" /\ op'.arg.side \in {"buy", "sell"}
          /\ ~Has(last_tick, op'.sym))
          => /\ outcome' # "raised"
             /\ trigger_trigger_orders' = trigger_trigger_orders]_vars

(***************************************************************************)
(* cancel_all_trigger_orders called by the script on an account that       *)
(* already holds pending trigger orders.                                   *)
(***************************************************************************)
MaxPending == 21

\* n pending orders: every fifth one of instrument T, position side short
\* for every k-th one and long for the others
PendingOrders(n, k) ==
    [i \in 1..n |->
        [inst |-> IF i % 5 = 0 THEN "T" ELSE "S", side |-> "sell",
         posSide |-> IF i % k = 0 THEN "short" ELSE "long",
         px |-> Z(90), sz |-> Z(1), ordPx |-> Z(-1), why |-> "sl"]]

InitCancel ==
    /\ race = RaceIdle
    /\ scan = ScanIdle
    /\ strategy = StrategyIdle
    /\ last_tick = EmptyDict
    /\ trigger_trigger_orders = EmptyDict
    /\ sltp_cfg = EmptyDict
    /\ last_position = EmptyDict
    /\ _pause = FALSE
    /\ tp_with_trigger = TRUE
    /\ cancel_tp = TRUE
    /\ positions = <<>>
    /\ subscribed = {}
    /\ algo_orders \in {PendingOrders(n, k) : n \in 0..MaxPending, k \in 1..3}
    /\ tto_seq = 0
    /\ tto_accepted = [i \in 1..MaxTTO |-> 0]
    /\ calls = <<>>
    /\ op = [name |-> "init", sym |-> "", arg |-> NoArg, flag |-> FALSE]
    /\ outcome = "ok"

CancelSides == {"all", "long", "short"}

\* engine.cancel_all_trigger_orders(symbol, side)
CancelAll(sym, side, g) ==
    LET m == cancel_all_trigger_orders(Start, g, sym, side, "cancel")
    IN  /\ op' = [name |-> "cancel_all", sym |-> sym, arg |-> side, flag |-> FALSE]
        /\ Commit(m)
        /\ outcome' = "ok"
        /\ UNCHANGED <<last_tick, last_position, _pause, tp_with_trigger,
                       cancel_tp, positions, tto_seq, race, scan, strategy>>

NextCancel ==
    \E sym \in {"S", NoSymbol}, side \in CancelSides :
        \E g \in Oracles(CallsOf(cancel_all_trigger_orders(
                              Start, NoFault, sym, side, "cancel")), MaxFaults) :
            CancelAll(sym, side, g)

SpecCancel == InitCancel /\ [][NextCancel]_vars

\* the pending orders the query returns that have the requested side
Matching(ex, sym, side) ==
    {i \in 1..Len(ex) : /\ sym = NoSymbol \/ ex[i].inst = sym
                        /\ side = "all" \/ ex[i].posSide = side}

\* the ids of the cancel requests of a log, one request after the other
RECURSIVE RequestedIds(_, _)
RequestedIds(log, k) ==
    IF k > Len(log) THEN <<>>
    ELSE (IF log[k].api = "cancel-algos" THEN log[k].ids ELSE <<>>)
         \o RequestedIds(log, k + 1)

\* C30: cancel_all_trigger_orders first queries; when the query succeeds and
\* returns orders, its cancel requests hold at most 10 ids each and, read one
\* after the other, name every returned order of the requested position side
\* exactly once, in the order of the response, and no other order; when the
\* query fails or returns nothing no cancel request is sent.
C30_CancelsMatchingInBatches ==
    [][op'.name = "cancel_all" =>
          LET ids == RequestedIds(calls', 1)
          IN  /\ calls'[1].api = "orders-algo-pending"
              /\ \A k \in 2..Len(calls') :
                     /\ calls'[k].api = "cancel-algos"
                     /\ Len(calls'[k].ids) \in 1..10
              /\ \A i, j \in 1..Len(ids) : i < j => ids[i] < ids[j]
              /\ IF calls'[1].res = "ok"
                 THEN {ids[i] : i \in 1..Len(ids)}
                          = Matching(algo_orders, op'.sym, op'.arg)
                 ELSE Len(calls') = 1]_vars

\* 21 orders of side short were pending and a cancel of every side has sent
\* three requests, the last with one id
C30_ThreeBatches ==
    /\ op.name = "cancel_all"
    /\ Len(calls) = 4
    /\ Len(calls[2].ids) = 10
    /\ Len(calls[3].ids) = 10
    /\ Len(calls[4].ids) = 1

(***************************************************************************)
(* The cached snapshot: position events with a failing gateway, pause and  *)
(* resume.                                                                 *)
(***************************************************************************)
NextSnap == PauseOp \/ ResumeOp \/ PositionProt

SpecSnap == Init /\ [][NextSnap]_vars

\* the event's volume differs from the symbol's cached snapshot, or there is
\* no snapshot
VolumeChanged ==
    \/ ~Has(last_position, op'.sym)
    \/ op'.arg.volume # last_position[op'.sym].volume

\* C31: every position event stores its position as the symbol's last
\* snapshot, whether the engine is paused or not and whether the evaluation
\* ended normally or raised; nothing else writes the snapshot, so an event
\* processed after resume refreshes the protective orders only if there is no
\* snapshot or its volume differs from the last one stored, which is the one
\* of the last event received during the pause.
C31_SnapshotAlwaysRecorded ==
    [][/\ op'.name = "position"
            => /\ Has(last_position', op'.sym)
               /\ last_position'[op'.sym] = op'.arg
               /\ \A sym \in DOMAIN last_position' \ {op'.sym} :
                      /\ Has(last_position, sym)
                      /\ last_position'[sym] = last_position[sym]
       /\ op'.name # "position" => last_position' = last_position
       /\ (op'.name = "position" /\ ~_pause /\ RefreshCallsIn(calls') # {})
            => VolumeChanged]_vars

\* a position event processed by the running engine without a refresh,
\* although no refresh was ever made for its symbol: its volume was cached by
\* an event received during a pause
C31_ResumedWithoutRefresh ==
    /\ op.name = "position"
    /\ ~_pause
    /\ calls = <<>>
    /\ RLt(Z(0), op.arg.volume)
    /\ ~Has(sltp_cfg, op.sym)
    /\ algo_orders = <<>>

\* C32: the guard keeps one snapshot per symbol: a position event evaluated
\* by the running engine refreshes the protective orders exactly when the
\* symbol has no cached snapshot or the event's volume differs from the cached
\* snapshot's, whether the two events are of the same direction or not.
C32_GuardPerSymbol ==
    [][(op'.name = "position" /\ ~_pause)
          => (RefreshCallsIn(calls') # {} <=> VolumeChanged)]_vars

\* the event of a short position that repeated the volume of the preceding
\* long event: no refresh was made and the short side has no stop-loss order
C32_ShortSkippedAfterLong ==
    /\ op.name = "position"
    /\ op.arg.direction = "short"
    /\ RLt(Z(0), op.arg.volume)
    /\ RefreshCallsIn(calls) = {}
    /\ \E k \in 1..Len(positions) : positions[k].direction = "long"
    /\ \A k \in 1..Len(algo_orders) :
           ~(algo_orders[k].posSide = "short" /\ algo_orders[k].why = "sl")

\* a position event evaluated by the running engine, with volume > 0 and a
\* pnl ratio below the symbol's non-zero stop-loss ratio
StopLossEvent ==
    /\ op'.name = "position"
    /\ ~_pause
    /\ RLt(Z(0), op'.arg.volume)
    /\ Has(sltp_cfg', op'.sym)
    /\ StopLossHit(op'.arg, sltp_cfg'[op'.sym].stoploss)

\* C33: every position event evaluated by the running engine, with volume > 0
\* and a pnl ratio below the symbol's non-zero stop-loss ratio, submits a
\* market close of the whole position, in either take-profit mode and however
\* many such events came before.
C33_StopLossClosesAtMarket ==
    [][StopLossEvent =>
          \E k \in MarketCloses(calls') :
              /\ calls'[k].inst = op'.sym
              /\ calls'[k].sz = SizeOf(op'.arg)
              /\ calls'[k].side = CloseSide(op'.arg)]_vars

(***************************************************************************)
(* The take-profit cancel with watches: position events in profit with a   *)
(* failing gateway, ticks and creates of one symbol.                       *)
(***************************************************************************)
\* ticks below and above the first trigger of the watch
WipeTickPrices == {Z(1), Z(100)}

TickWipe ==
    \E price \in WipeTickPrices :
        process_tick_event([vt_symbol |-> "S", last_price |-> price], NoFault)

\* a sell watch: first trigger 2, second leg of volume 7 at 4 on the short side
CreateWipe ==
    set_trigger_trigger_order("S", "sell", Z(2), Z(4), Z(7), Z(5), FALSE)

\* a short position in profit below and above the take-profit threshold;
\* one gateway call of the event may fail
PositionWipe ==
    \E position \in { Pos("S", "short", Z(1), Z(100), Z(10), Z(110), R(3, 4)),
                      Pos("S", "short", Z(1), Z(100), Z(10), Z(110), Z(2)) } :
        \E g \in Oracles(CallsOf(PositionRun(position, NoFault)), 1) :
            process_position_event(position, g)

NextWipe == TickWipe \/ CreateWipe \/ PositionWipe

SpecWipe == Init /\ [][NextWipe]_vars

\* C34: with cancel_tp set, a position event that submits a take-profit
\* trigger order has first queried the pending trigger orders of the symbol;
\* when the gateway answered the query and accepted the cancel requests, no
\* other trigger order is left pending for the symbol and position side
\* (neither the stop-loss order of the refresh nor a second-leg order of a
\* watch); the take-profit order is the only order submitted once the
\* take-profit branch has begun, and an event that repeats the cached volume
\* submits no stop-loss order.
C34_TakeProfitWipesSide ==
    [][(op'.name = "position" /\ cancel_tp) =>
          /\ \A k \in TakeProfitOrders(calls') :
                 /\ \E j \in TakeProfitCancels(calls') :
                        j < k /\ calls'[j].api = "orders-algo-pending"
                 /\ (\A j \in TakeProfitCancels(calls') : calls'[j].res = "ok")
                        => /\ \A i \in PendingFor(algo_orders', op'.sym,
                                                  calls'[k].posSide) :
                                  algo_orders'[i].why = "tp"
                           /\ Cardinality(PendingFor(algo_orders', op'.sym,
                                                     calls'[k].posSide)) <= 1
                 /\ \A j \in 1..Len(calls') :
                        (calls'[j].why = "tp" /\ calls'[j].api = "order-algo")
                            => j = k
                 /\ k = Len(calls')
          /\ (TakeProfitOrders(calls') # {} /\ ~VolumeChanged)
                => StopLossCalls(calls') = {}]_vars

\* an event that repeated the cached volume and made no refresh: its
\* take-profit branch cancelled two pending orders of the side in one request
\* (the stop-loss order and the second leg of a fired watch) and left the
\* take-profit order alone on that side
C34_StopLossAndSecondLegGone ==
    /\ op.name = "position"
    /\ cancel_tp
    /\ RefreshCallsIn(calls) = {}
    /\ \E i \in DOMAIN tto_accepted : tto_accepted[i] > 0
    /\ AllAccepted(calls)
    /\ \E k \in TakeProfitCancels(calls) : Len(calls[k].ids) = 2
    /\ \E k \in TakeProfitOrders(calls) :
           \A i \in PendingFor(algo_orders, op.sym, calls[k].posSide) :
               algo_orders[i].why = "tp"

\* the protective calls of a log: stop-loss and take-profit trigger orders and
\* market closes
ProtectiveCalls(log) ==
    {k \in 1..Len(log) :
        /\ log[k].api \in {"order-algo", "order"}
        /\ log[k].why \in {"sl", "tp", "close"}}

\* the call closes an open position that main_engine holds: same symbol,
\* whole size, selling a long or buying back a short
ClosesPosition(c, pos) ==
    \E i \in 1..Len(pos) :
        /\ pos[i].vt_symbol = c.inst
        /\ RLt(Z(0), pos[i].volume)
        /\ c.sz = SizeOf(pos[i])
        /\ IF pos[i].direction = "long"
           THEN c.side = "sell" /\ c.posSide = "long"
           ELSE c.side = "buy" /\ c.posSide = "short"

\* C35: every stop-loss trigger order, take-profit trigger order and market
\* close the engine sends has side sell and position side long for a long
\* position, side buy and position side short for a short position, and is
\* for an open position of its symbol.
C35_ProtectiveOrdersClose ==
    [][\A k \in ProtectiveCalls(calls') :
          /\ ClosesPosition(calls'[k], positions')
          /\ calls'[k].side \in {"sell", "buy"}
          /\ calls'[k].posSide = (IF calls'[k].side = "sell" THEN "long"
                                   ELSE "short")]_vars

\* one event whose refresh sent a stop-loss order for the long and for the
\* short position of the symbol and which then closed a position at market
C35_BothSidesAndClose ==
    /\ op.name = "position"
    /\ \E k \in StopLossCalls(calls) :
           calls[k].side = "sell" /\ calls[k].posSide = "long"
    /\ \E k \in StopLossCalls(calls) :
           calls[k].side = "buy" /\ calls[k].posSide = "short"
    /\ \E k \in MarketCloses(calls) :
           calls[k].side = CloseSide(op.arg)

\* the trigger price lies on the safe side of the position's liquidation
\* price: above it for a long position, below it for a short position
SafeSide(position, px) ==
    IF position.direction = "long"
    THEN RLt(position.liqPrice, px)
    ELSE RLt(px, position.liqPrice)

\* C36: every stop-loss trigger price a refresh submits without use_max_tp,
\* in entry-price mode and in tick-price mode, is strictly above the
\* liquidation price of a long position and strictly below the liquidation
\* price of a short position (liquidation price, leverage and self.offset
\* positive).
C36_StopLossBeyondLiquidation ==
    [][(op'.name = "refresh" => ~op'.arg.use_max_tp) =>
          \A k \in StopLossCalls(calls') :
              \A i \in 1..Len(positions') :
                  (/\ positions'[i].vt_symbol = calls'[k].inst
                   /\ positions'[i].direction = calls'[k].posSide
                   /\ RLt(Z(0), positions'[i].liqPrice)
                   /\ RLt(Z(0), positions'[i].lever)
                   /\ RLt(Z(0), self_offset))
                      => SafeSide(positions'[i], calls'[k].px)]_vars

\* a lock_pos at a tick equal to the long position's liquidation price 90:
\* the long stop-loss was moved to 90 * (1 + 0.1/10) = 90.9 and the short
\* stop-loss follows the tick
C36_LockedAtLiquidation ==
    /\ op.name = "lock_pos"
    /\ \E k \in StopLossCalls(calls) :
           calls[k].posSide = "long" /\ calls[k].px = R(909, 10)
    /\ \E k \in StopLossCalls(calls) :
           calls[k].posSide = "short" /\ RLt(calls[k].px, Z(110))

\* the second-leg submissions of a log
SecondLegs(log) == {k \in 1..Len(log) : log[k].why = "tto"}

\* C37: a create that is accepted stores the given orderPx with the watch;
\* the second leg of a fired watch is submitted with the watch's trigPx2 as
\* trigger price and the watch's volume as size, and every second-leg order
\* on the exchange has order price -1 (market), whatever orderPx the watch
\* holds.
C37_SecondLegAtMarket ==
    [][/\ (op'.name = "create" /\ outcome' = "ok")
            => LET q == trigger_trigger_orders'[op'.sym]
               IN  q[Len(q)].orderPx = op'.arg.orderPx
       /\ op'.name = "tick"
            => \A k \in SecondLegs(calls') :
                   \E i \in 1..Len(QueueOf(trigger_trigger_orders, op'.sym)) :
                       LET w == trigger_trigger_orders[op'.sym][i]
                       IN  /\ w.id = calls'[k].ref
                           /\ calls'[k].px = w.trigPx2
                           /\ calls'[k].sz = w.volume
                           /\ calls'[k].api = "order-algo"
       /\ \A i \in 1..Len(algo_orders') :
              algo_orders'[i].why = "tto" => algo_orders'[i].ordPx = Z(-1)]_vars

\* the second leg of a watch created with orderPx 5 is pending on the
\* exchange: trigger price 4, size 7, order price -1
C37_SecondLegPending ==
    /\ op.name = "tick"
    /\ \E k \in SecondLegs(calls) : calls[k].res = "ok"
    /\ \E i \in 1..Len(algo_orders) :
           /\ algo_orders[i].why = "tto"
           /\ algo_orders[i].px = Z(4)
           /\ algo_orders[i].sz = Z(7)
           /\ algo_orders[i].ordPx = Z(-1)

\* the watches of a queue whose side is neither 'buy' nor 'sell'
Unsided(q) == {q[k].id : k \in {i \in 1..Len(q) : q[i].side \notin {"buy", "sell"}}}

\* C38: a create whose side is neither 'buy' nor 'sell' is accepted and puts
\* the watch at the end of the symbol's queue, with or without a cached tick;
\* a tick submits nothing for such a watch and leaves it in the queue; a watch
\* of that kind leaves a queue only by cleanup_ttos or by a create with
\* clean_others for its symbol.
C38_UnsidedWatchStays ==
    [][/\ (op'.name = "create" /\ op'.arg.side \notin {"buy", "sell"})
            => /\ outcome' = "ok"
               /\ LET q == QueueOf(trigger_trigger_orders', op'.sym)
                  IN  /\ q # <<>>
                      /\ q[Len(q)] = [op'.arg EXCEPT !.id = tto_seq']
                      /\ tto_seq' = tto_seq + 1
       /\ op'.name = "tick"
            => \A k \in 1..Len(calls') :
                   calls'[k].ref \notin
                       Unsided(QueueOf(trigger_trigger_orders, op'.sym))
       /\ \A sym \in Symbols :
              \A id \in Unsided(QueueOf(trigger_trigger_orders, sym)) :
                  id \notin Unsided(QueueOf(trigger_trigger_orders', sym))
                      => \/ op'.name = "cleanup_ttos"
                         \/ op'.name = "create" /\ op'.sym = sym /\ op'.flag]_vars

\* a tick fired and dropped a watch while a watch with side 'hold' stayed in
\* the same queue
C38_FiredBesideUnsided ==
    /\ op.name = "tick"
    /\ \E k \in SecondLegs(calls) : calls[k].res = "ok"
    /\ Unsided(QueueOf(trigger_trigger_orders, op.sym)) # {}
    /\ Len(QueueOf(trigger_trigger_orders, op.sym)) = 1

(***************************************************************************)
(* Commands of a paused engine: pause, resume, position events, ticks,     *)
(* set_sl, set_tp, set_all_sl, set_all_tp and lock_pos for one symbol.     *)
(***************************************************************************)
NextGate ==
    \/ PauseOp \/ ResumeOp \/ PositionPause \/ TickProt
    \/ SetSlSL \/ SetTpTP \/ SetAllSl \/ SetAllTp \/ LockPosProt

SpecGate == Init /\ [][NextGate]_vars

RefreshCommands == {"set_sl", "set_tp", "set_all_sl", "set_all_tp", "lock_pos"}

\* the queries of the pending trigger orders in a log
PendingQueries(log) ==
    {k \in 1..Len(log) : log[k].api = "orders-algo-pending"}

\* C39: while the engine is paused a position event calls nothing on the
\* gateway, but set_sl, set_tp, set_all_sl, set_all_tp and lock_pos that return
\* have submitted a stop-loss order for every open position they address;
\* the four set commands have queried the pending orders first and, when the
\* query was answered and orders of the position side were pending, have
\* requested their cancellation.
C39_PauseGatesPositionEventsOnly ==
    [][/\ (_pause /\ op'.name = "position") => calls' = <<>>
       /\ (_pause /\ op'.name \in RefreshCommands /\ outcome' = "ok")
            => /\ NotRefreshed(positions, calls') = {}
               /\ (op'.name # "lock_pos" /\ positions # <<>>)
                    => /\ PendingQueries(calls') # {}
                       /\ \A k \in PendingQueries(calls') :
                              (/\ calls'[k].res = "ok"
                               /\ PendingFor(algo_orders, calls'[k].inst,
                                             calls'[k].posSide) # {})
                                  => /\ k < Len(calls')
                                     /\ calls'[k + 1].api = "cancel-algos"]_vars

\* a set_sl of the paused engine cancelled the pending stop-loss order and
\* submitted a new one, both accepted by the gateway
C39_PausedSetRefreshed ==
    /\ _pause
    /\ op.name = "set_sl"
    /\ AllAccepted(calls)
    /\ \E k \in 1..Len(calls) : calls[k].api = "cancel-algos"
    /\ StopLossCalls(calls) # {}

(***************************************************************************)
(* The strategy thread: start_strategy and stop_strategy called by the     *)
(* operator (run.py and the console), run_strategy on the thread started,  *)
(* ticks on the dispatcher.                                                *)
(***************************************************************************)
\* the threads ever started in a behaviour
MaxThreads == 3

\* every variable but strategy and the record of the last operation
not_strategy ==
    <<last_tick, trigger_trigger_orders, sltp_cfg, last_position, _pause,
      tp_with_trigger, cancel_tp, positions, subscribed, algo_orders, tto_seq,
      tto_accepted, race, scan>>

\* flag: the call did more than return at its first test
Lifecycle(name, flag) ==
    /\ op' = [name |-> name, sym |-> "", arg |-> NoArg, flag |-> flag]
    /\ calls' = <<>>
    /\ outcome' = "ok"
    /\ UNCHANGED not_strategy

\* a start_strategy that does not test strategy_active
start_strategy_Unguarded ==
    /\ strategy.pc = "idle"
    /\ strategy.started < MaxThreads
    /\ strategy' = [strategy EXCEPT
                       !.strategy_active = TRUE,
                       !.strategy_thread = strategy.started + 1,
                       !.alive = @ \cup {strategy.started + 1},
                       !.started = @ + 1]
    /\ Lifecycle("start_strategy", TRUE)

\* start_strategy: returns at once while strategy_active; otherwise sets the
\* flag, creates the thread and starts it
start_strategy ==
    /\ strategy.pc = "idle"
    /\ IF strategy.strategy_active
       THEN /\ strategy' = strategy
            /\ Lifecycle("start_strategy", FALSE)
       ELSE /\ strategy.started < MaxThreads
            /\ strategy' = [strategy EXCEPT
                               !.strategy_active = TRUE,
                               !.strategy_thread = strategy.started + 1,
                               !.alive = @ \cup {strategy.started + 1},
                               !.started = @ + 1]
            /\ Lifecycle("start_strategy", TRUE)

\* stop_strategy up to the join: returns at once while not strategy_active;
\* otherwise clears the flag and goes on to join the thread
stop_strategy ==
    /\ strategy.pc = "idle"
    /\ IF ~strategy.strategy_active
       THEN /\ strategy' = strategy
            /\ Lifecycle("stop_strategy", FALSE)
       ELSE /\ strategy' = [strategy EXCEPT !.strategy_active = FALSE,
                                            !.pc = "join"]
            /\ Lifecycle("stop_strategy_begin", TRUE)

\* self.strategy_thread.join() returns when the thread has ended; then
\* strategy_thread = None and stop_strategy returns
stop_strategy_join ==
    /\ strategy.pc = "join"
    /\ strategy.strategy_thread \notin strategy.alive
    /\ strategy' = [strategy EXCEPT !.strategy_thread = 0, !.pc = "idle"]
    /\ Lifecycle("stop_strategy", TRUE)

\* thread t leaves run_strategy
ThreadEnds(t, name) ==
    /\ strategy' = [strategy EXCEPT !.alive = @ \ {t}]
    /\ Lifecycle(name, TRUE)

\* `while engine.strategy_active` of the script's run(): the loop ends when it
\* reads False
run_observe(t) ==
    /\ t \in strategy.alive
    /\ ~strategy.strategy_active
    /\ ThreadEnds(t, "run_observed")

\* run() returns by itself, or raises and run_strategy's bare except logs it:
\* the thread ends and strategy_active stays as it is
run_ends(t) ==
    /\ t \in strategy.alive
    /\ ThreadEnds(t, "run_ended")

\* the script creates a watch; without a cached tick the create raises
\* KeyError, which ends run()
run_create(t) ==
    /\ t \in strategy.alive
    /\ IF CreateRaises("S", "sell")
       THEN ThreadEnds(t, "run_raised")
       ELSE set_trigger_trigger_order("S", "sell", Z(2), Z(4), Z(7), Z(5), FALSE)

NextStrategy ==
    \/ start_strategy \/ stop_strategy \/ stop_strategy_join
    \/ \E t \in 1..MaxThreads : run_observe(t) \/ run_ends(t) \/ run_create(t)
    \/ TickWipe

SpecStrategy == Init /\ [][NextStrategy]_vars

\* C40: at most one strategy thread is alive at any time; a start_strategy
\* while strategy_active changes nothing, also when the thread has already
\* ended; a stop_strategy while not strategy_active changes nothing; when a
\* stop_strategy that cleared the flag returns, the thread it joined has
\* ended and strategy_thread is None; and a thread that is alive when the flag
\* is cleared ends only by leaving run().
C40_OneStrategyThread ==
    [][/\ Cardinality(strategy'.alive) <= 1
       /\ (op'.name = "start_strategy" /\ strategy.strategy_active)
            => strategy' = strategy
       /\ (op'.name = "stop_strategy" /\ ~op'.flag)
            => strategy' = strategy /\ ~strategy.strategy_active
       /\ (op'.name = "stop_strategy" /\ op'.flag)
            => /\ strategy'.alive = {}
               /\ strategy'.strategy_thread = 0
               /\ ~strategy'.strategy_active
       /\ strategy'.alive # strategy.alive
            => op'.name \in {"start_strategy", "run_observed", "run_ended",
                             "run_raised"}]_vars

\* the thread has ended without stop_strategy and a start_strategy was a
\* no-op: the engine is marked active with no strategy thread running
C40_StartIgnoredAfterCrash ==
    /\ op.name = "start_strategy"
    /\ ~op.flag
    /\ strategy.strategy_active
    /\ strategy.alive = {}
    /\ strategy.strategy_thread # 0

=============================================================================
